---- MODULE Spec2Model ----
(***************************************************************************)
(* Tiled navmesh orchestrator of rerecast (crates/rerecast/src/            *)
(* tiled_navmesh.rs): TiledNavmeshConfig::new, tile_coords, tile_aabb,     *)
(* generate_tile and the sequential and parallel variants of               *)
(* generate_tiles.                                                         *)
(*                                                                         *)
(* Lengths are f32 in the source.  Here they are exact integers counted in *)
(* tenths of a world unit (cell_size 0.3 is 3, a 100 unit world is 1000),  *)
(* so every product and quotient below is the real-number value of the     *)
(* f32 expression; f32 rounding is not modelled.                           *)
(*                                                                         *)
(* A caller runs TiledNavmeshConfig::new once and then, on the same        *)
(* TiledNavmeshConfig and TriMesh, generate_tiles_sequential twice and     *)
(* generate_tiles_parallel once.                                           *)
(***************************************************************************)
EXTENDS Integers, Sequences, FiniteSets, TLC

\* ---------------------------------------------------------------- bounds
\* Number of rayon worker threads that run tiles at the same time.
NumWorkers == 2
\* Largest tile_count() for which the caller goes on to generate tiles.
MaxTiles == 4

\* ---------------------------------------------------------------- inputs
\* Config.tile_size (voxels).
TileSizes == {0, 1, 16}
\* Config.cell_size, tenths of a world unit.
CellSizes == {-3, 0, 3, 10}
\* World extent on X and on Z, tenths of a world unit.
Extents == {0, 48, 50, 1000, 700000}
\* aabb.min.x = aabb.min.z, tenths of a world unit.
Origins == {-20}
\* Config.border_size (voxels).
BorderSizes == {3}
\* Number of entries of Config.area_volumes.
VolumeCounts == {2}
\* Contents of the caller's TriMesh.
TriMeshes == {"plane"}

U16_MAX == 65535

Configs ==
    [tile_size : TileSizes, cell_size : CellSizes, border_size : BorderSizes,
     area_volumes : VolumeCounts,
     aabb : {[min |-> [x |-> o, y |-> 0, z |-> o],
              max |-> [x |-> o + w, y |-> 100, z |-> o + h]] :
                 o \in Origins, w \in Extents, h \in Extents}]

\* ------------------------------------------------- TiledNavmeshConfig::new
\* ops::ceil applied to the quotient num / den of two lengths, den > 0.
ceil(num, den) == -((-num) \div den)

\* Rust's float-to-integer cast `as u16`: saturates at both ends.
AsU16(v) == IF v < 0 THEN 0 ELSE IF v > U16_MAX THEN U16_MAX ELSE v

TilingNotEnabled == [kind |-> "TilingNotEnabled", msg |-> "none"]
NoError == [kind |-> "none", msg |-> "none"]

\* The value of Err(TilingNotEnabled) of TiledNavmeshConfig::new.
NewErr(config) ==
    [ok |-> FALSE, err |-> TilingNotEnabled, config |-> config,
     tiles_x |-> 0, tiles_z |-> 0]

\* Mutant of new: the guard against a zero tile_world_size is `< 0.0`; the
\* division by zero then yields +inf, which `as u16` casts to U16_MAX.
new_StrictGuard(config) ==
    LET world_width == config.aabb.max.x - config.aabb.min.x
        world_height == config.aabb.max.z - config.aabb.min.z
        tile_world_size == config.tile_size * config.cell_size
    IN  IF config.tile_size = 0 THEN NewErr(config)
        ELSE IF tile_world_size < 0 THEN NewErr(config)
        ELSE IF tile_world_size = 0
             THEN [ok |-> TRUE, err |-> NoError, config |-> config,
                   tiles_x |-> U16_MAX, tiles_z |-> U16_MAX]
        ELSE [ok |-> TRUE, err |-> NoError, config |-> config,
              tiles_x |-> AsU16(ceil(world_width, tile_world_size)),
              tiles_z |-> AsU16(ceil(world_height, tile_world_size))]

\* TiledNavmeshConfig::new(config).
new(config) ==
    LET world_width == config.aabb.max.x - config.aabb.min.x
        world_height == config.aabb.max.z - config.aabb.min.z
        tile_world_size == config.tile_size * config.cell_size
    IN  IF config.tile_size = 0 THEN NewErr(config)
        ELSE IF tile_world_size <= 0 THEN NewErr(config)
        ELSE [ok |-> TRUE, err |-> NoError, config |-> config,
              tiles_x |-> AsU16(ceil(world_width, tile_world_size)),
              tiles_z |-> AsU16(ceil(world_height, tile_world_size))]

\* TiledNavmeshConfig::tile_count.
tile_count(t) == t.tiles_x * t.tiles_z

\* Mutant of tile_coords: x is the outer loop.
tile_coords_XOuter(t) ==
    [i \in 1..tile_count(t) |->
        [x |-> (i - 1) \div t.tiles_z, z |-> (i - 1) % t.tiles_z]]

\* Mutant of tile_coords: the inner range is 0..tiles_z and the outer one
\* 0..tiles_x.
tile_coords_SwappedBounds(t) ==
    [i \in 1..tile_count(t) |->
        [x |-> (i - 1) % t.tiles_z, z |-> (i - 1) \div t.tiles_z]]

\* TiledNavmeshConfig::tile_coords, collected: z is the outer loop.
tile_coords(t) ==
    [i \in 1..tile_count(t) |->
        [x |-> (i - 1) % t.tiles_x, z |-> (i - 1) \div t.tiles_x]]

\* Mutant of tile_aabb: the border is added on the far sides only.
tile_aabb_NoBorder(t, coord) ==
    LET tile_world_size == t.config.tile_size * t.config.cell_size
        border_world_size == t.config.border_size * t.config.cell_size
        min_x == t.config.aabb.min.x + coord.x * tile_world_size
        max_x == min_x + tile_world_size + 2 * border_world_size
        min_z == t.config.aabb.min.z + coord.z * tile_world_size
        max_z == min_z + tile_world_size + 2 * border_world_size
    IN  [min |-> [x |-> min_x, y |-> t.config.aabb.min.y, z |-> min_z],
         max |-> [x |-> max_x, y |-> t.config.aabb.max.y, z |-> max_z]]

\* TiledNavmeshConfig::tile_aabb.
tile_aabb(t, coord) ==
    LET tile_world_size == t.config.tile_size * t.config.cell_size
        border_world_size == t.config.border_size * t.config.cell_size
        min_x == t.config.aabb.min.x + coord.x * tile_world_size - border_world_size
        max_x == min_x + tile_world_size + 2 * border_world_size
        min_z == t.config.aabb.min.z + coord.z * tile_world_size - border_world_size
        max_z == min_z + tile_world_size + 2 * border_world_size
    IN  [min |-> [x |-> min_x, y |-> t.config.aabb.min.y, z |-> min_z],
         max |-> [x |-> max_x, y |-> t.config.aabb.max.y, z |-> max_z]]


\* --------------------------------------------------------------- the state
VARIABLES
    config,       \* the Config handed to TiledNavmeshConfig::new
    trimesh,      \* the caller's TriMesh, shared by reference with every tile
    failAt,       \* per tile coordinate, the stage whose Result is Err ("none": no stage)
    tiled,        \* the Result of TiledNavmeshConfig::new
    call,         \* the caller's position: "new", "seq1", "seq2", "par", "end"
    running,      \* TRUE while the current generate_tiles call has not returned
    stage,        \* per tile index: 0 not started, k next stage to run, Done returned
    vol,          \* per tile index: area volumes marked so far
    ran,          \* per tile index: the stages the tile has run, in order
    seen,         \* per tile index: the contents of the clone that was rasterized
    result,       \* per tile index: the Result returned by generate_tile
    next,         \* sequential collect: number of items taken from the iterator
    finished,     \* parallel collect: tile indices in the order their results arrived
    saved_error,  \* the first Err the collect has met
    full,         \* parallel collect: TRUE once an Err stopped the iteration
    ret           \* per call, the value returned to the caller

\* State of the callers that exercise one function at a time.
VARIABLES
    yielded,      \* the TileCoords the tile_coords() iterator has yielded so far
    exhausted,    \* TRUE once the tile_coords() iterator has returned None
    boxes,        \* tile_aabb(coord) of the yielded coordinates, in the same order
    chf,          \* the CompactHeightfield (self of mark_convex_poly_area)
    prev,         \* chf as it was when the last call on it was made
    volume,       \* the ConvexVolume passed to the last mark_convex_poly_area
    nmarks,       \* number of mark_convex_poly_area calls made on chf
    area_volumes, \* config.area_volumes of the loop that marks chf
    unmarked      \* chf as it was before the first mark_convex_poly_area

\* State of the caller that runs build_distance_field on one heightfield, first
\* as compiled without the "parallel" feature, then as compiled with it.
VARIABLES
    build,          \* "none", then "seq", then "par": the build that runs
    pc,             \* the position inside build_distance_field
    cursor,         \* the cells the current sequential loop has processed
    distance_field, \* the Vec<u16> of calculate_distance_field
    blurred,        \* the result Vec<u16> of box_blur
    progress,       \* per worker thread, the cells of its part it has processed
    partial,        \* per worker thread, the items its cells produced, in order
    built           \* the heightfields the finished builds left, in call order

gridVars == <<yielded, exhausted, boxes>>
markVars == <<chf, prev, volume, nmarks, area_volumes, unmarked>>
distVars == <<build, pc, cursor, distance_field, blurred, progress, partial, built>>

\* The variables the tile generation calls never touch.
unitVars == <<gridVars, markVars, distVars>>

vars == <<config, trimesh, failAt, tiled, call, running, stage, vol, ran, seen,
          result, next, finished, saved_error, full, ret, unitVars>>

\* ---------------------------------------------------------- generate_tile
\* Mutant of Stages: the area volumes are marked before the erosion.
Stages_MarkBeforeErode ==
    <<"build", "populate_from_trimesh", "into_compact", "mark_convex_poly_area",
      "erode_walkable_area", "build_distance_field", "build_regions",
      "build_contours", "into_polygon_mesh", "DetailNavmesh_new">>

\* The calls of generate_tile, in program order.
Stages ==
    <<"build", "populate_from_trimesh", "into_compact", "erode_walkable_area",
      "mark_convex_poly_area", "build_distance_field", "build_regions",
      "build_contours", "into_polygon_mesh", "DetailNavmesh_new">>

Done == Len(Stages) + 1

\* The calls of generate_tile that return a Result.
Fallible ==
    {"build", "populate_from_trimesh", "into_compact", "build_regions",
     "into_polygon_mesh", "DetailNavmesh_new"}

\* Mutant of map_err: the closures of the first two stages are exchanged.
map_err_Swapped(s) ==
    [kind |-> CASE s = "build" -> "Rasterization"
                [] s = "populate_from_trimesh" -> "HeightfieldBuild"
                [] s = "into_compact" -> "CompactHeightfield"
                [] s = "build_regions" -> "RegionBuild"
                [] s = "into_polygon_mesh" -> "PolygonMesh"
                [] s = "DetailNavmesh_new" -> "DetailMesh",
     msg |-> s]

\* The map_err closure that follows stage s; msg names the stage error e of
\* e.to_string().
map_err(s) ==
    [kind |-> CASE s = "build" -> "HeightfieldBuild"
                [] s = "populate_from_trimesh" -> "Rasterization"
                [] s = "into_compact" -> "CompactHeightfield"
                [] s = "build_regions" -> "RegionBuild"
                [] s = "into_polygon_mesh" -> "PolygonMesh"
                [] s = "DetailNavmesh_new" -> "DetailMesh",
     msg |-> s]

\* Mutant of SharedAfterRasterize: the stage is handed the caller's mesh
\* itself and consumes it.
SharedAfterRasterize_InPlace(mesh) == "consumed"

\* The caller's mesh after populate_from_trimesh(trimesh.clone(), ..): the
\* stage owns a clone, the shared mesh is only read.
SharedAfterRasterize(mesh) == mesh

\* The meshes a successful pipeline yields for a tile: a function of the
\* tile's AABB, the Config and the rasterized mesh, nothing else.
PipelineOutput(t, coord, mesh) ==
    [aabb |-> tile_aabb(t, coord), mesh |-> mesh]

\* Ok(NavmeshTile { coord, poly_mesh, detail_mesh }).
OkTile(t, coord, mesh) ==
    [ok |-> TRUE, err |-> NoError,
     val |-> <<[coord |-> coord,
                poly_mesh |-> PipelineOutput(t, coord, mesh),
                detail_mesh |-> PipelineOutput(t, coord, mesh)]>>]


\* Err(e) of generate_tile.
ErrTile(e) == [ok |-> FALSE, err |-> e, val |-> <<>>]

\* generate_tile has not returned yet.
Pending == [ok |-> FALSE, err |-> NoError, val |-> <<>>]

\* The caller's view of a generate_tiles call that has not returned.
NotReturned == [returned |-> FALSE, ok |-> FALSE, err |-> NoError, tiles |-> <<>>]

\* The caller generates tiles only for grids of at most MaxTiles tiles.
SmallGrid(t) ==
    t.ok /\ t.tiles_x <= MaxTiles /\ t.tiles_z <= MaxTiles /\ tile_count(t) <= MaxTiles

NumTiles == IF call # "new" /\ SmallGrid(tiled) THEN tile_count(tiled) ELSE 0

Tiles == 1..NumTiles

\* The coordinate of the tile at position i of the scattered Vec.
CoordOf(i) == tile_coords(tiled)[i]

\* The tile indices whose Result the parallel collect has received.
Delivered == {finished[k] : k \in 1..Len(finished)}

\* Tiles that occupy a worker: generate_tile was called and its Result has
\* not reached the collect.
Busy == {i \in Tiles : stage[i] > 0 /\ i \notin Delivered}

\* ------------------------------------------------------------------- Init
\* The coordinates of the grid new(cfg) yields, when the caller goes on to
\* generate tiles.
GridOf(cfg) ==
    LET t == new(cfg)
    IN  IF SmallGrid(t)
        THEN {[x |-> x, z |-> z] : x \in 0..(t.tiles_x - 1), z \in 0..(t.tiles_z - 1)}
        ELSE {}

\* The stages at which several tiles of one input fail.
SharedFailStages == {"populate_from_trimesh", "build_regions"}

\* The stage outcomes an input can have: per tile at most one failing stage;
\* either at most one tile fails, at any fallible stage, or any number of
\* tiles fail, each at one of SharedFailStages.
FailPlans(coords) ==
    {f \in [coords -> {"none"} \cup Fallible] :
        \/ Cardinality({c \in coords : f[c] # "none"}) <= 1
        \/ \A c \in coords : f[c] \in {"none"} \cup SharedFailStages}

\* No single-function caller has started.
GridIdle ==
    /\ yielded = <<>>
    /\ exhausted = FALSE
    /\ boxes = <<>>

MarkIdle ==
    /\ chf = <<>>
    /\ prev = <<>>
    /\ volume = <<>>
    /\ nmarks = 0
    /\ area_volumes = <<>>
    /\ unmarked = <<>>

DistIdle ==
    /\ build = "none"
    /\ pc = "idle"
    /\ cursor = 0
    /\ distance_field = <<>>
    /\ blurred = <<>>
    /\ progress = <<>>
    /\ partial = <<>>
    /\ built = <<>>

UnitIdle ==
    /\ GridIdle
    /\ MarkIdle
    /\ DistIdle

Init ==
    /\ config \in Configs
    /\ trimesh \in TriMeshes
    /\ failAt \in FailPlans(GridOf(config))
    /\ tiled = [ok |-> FALSE, err |-> NoError, config |-> config,
                tiles_x |-> 0, tiles_z |-> 0]
    /\ call = "new"
    /\ running = FALSE
    /\ stage = <<>>
    /\ vol = <<>>
    /\ ran = <<>>
    /\ seen = <<>>
    /\ result = <<>>
    /\ next = 0
    /\ finished = <<>>
    /\ saved_error = NoError
    /\ full = FALSE
    /\ ret = [c \in {"seq1", "seq2", "par"} |-> NotReturned]
    /\ UnitIdle

\* ---------------------------------------------------------------- actions
\* let tiled_config = TiledNavmeshConfig::new(config)
New ==
    /\ call = "new"
    /\ tiled' = new(config)
    /\ call' = IF SmallGrid(tiled') THEN "seq1" ELSE "end"
    /\ UNCHANGED <<config, trimesh, failAt, running, stage, vol, ran, seen,
                   result, next, finished, saved_error, full, ret>>
    /\ UNCHANGED unitVars

\* Entry of generate_tiles_sequential / generate_tiles_parallel: the
\* iterator over tile_coords() is built, nothing has run.
Begin ==
    /\ call \in {"seq1", "seq2", "par"}
    /\ ~running
    /\ running' = TRUE
    /\ stage' = [i \in Tiles |-> 0]
    /\ vol' = [i \in Tiles |-> 0]
    /\ ran' = [i \in Tiles |-> <<>>]
    /\ seen' = [i \in Tiles |-> "none"]
    /\ result' = [i \in Tiles |-> Pending]
    /\ next' = 0
    /\ finished' = <<>>
    /\ saved_error' = NoError
    /\ full' = FALSE
    /\ UNCHANGED <<config, trimesh, failAt, tiled, call, ret>>
    /\ UNCHANGED unitVars

\* Variant of SeqStartTile: generate_tile is called on the first coordinate
\* not yet started, whether or not the tiles before it have returned.
SeqStartTile_Eager ==
    /\ call \in {"seq1", "seq2"}
    /\ running
    /\ \E i \in Tiles :
          /\ stage[i] = 0
          /\ \A j \in Tiles : j < i => stage[j] # 0
          /\ stage' = [stage EXCEPT ![i] = 1]
    /\ UNCHANGED <<config, trimesh, failAt, tiled, call, running, vol, ran,
                   seen, result, next, finished, saved_error, full, ret>>
    /\ UNCHANGED unitVars

\* Sequential: the map adapter calls generate_tile on the next coordinate.
SeqStartTile ==
    /\ call \in {"seq1", "seq2"}
    /\ running
    /\ saved_error = NoError
    /\ next < NumTiles
    /\ stage[next + 1] = 0
    /\ stage' = [stage EXCEPT ![next + 1] = 1]
    /\ UNCHANGED <<config, trimesh, failAt, tiled, call, running, vol, ran,
                   seen, result, next, finished, saved_error, full, ret>>
    /\ UNCHANGED unitVars

\* Parallel: an idle worker takes a coordinate nobody has taken and calls
\* generate_tile on it, unless an Err has stopped the iteration.
ParStartTile(i) ==
    /\ i \in Tiles
    /\ call = "par"
    /\ running
    /\ ~full
    /\ stage[i] = 0
    /\ Cardinality(Busy) < NumWorkers
    /\ stage' = [stage EXCEPT ![i] = 1]
    /\ UNCHANGED <<config, trimesh, failAt, tiled, call, running, vol, ran,
                   seen, result, next, finished, saved_error, full, ret>>
    /\ UNCHANGED unitVars

\* One call of generate_tile's body for tile i: the stage runs; its Err
\* leaves generate_tile through `?`, otherwise the next statement follows.
GenerateTileStep(i) ==
    /\ i \in Tiles
    /\ running
    /\ stage[i] \in 1..Len(Stages)
    /\ LET s == Stages[stage[i]]
           coord == CoordOf(i)
           fails == failAt[coord] = s
           mesh == IF s = "populate_from_trimesh" THEN trimesh ELSE seen[i]
           marked == IF s = "mark_convex_poly_area" THEN vol[i] + 1 ELSE vol[i]
           \* the statement after s: the for loop over area_volumes repeats
           \* or is skipped
           after == IF s = "erode_walkable_area" /\ tiled.config.area_volumes = 0
                        THEN stage[i] + 2
                    ELSE IF s = "mark_convex_poly_area" /\ marked < tiled.config.area_volumes
                        THEN stage[i]
                    ELSE stage[i] + 1
       IN  /\ ran' = [ran EXCEPT ![i] = Append(@, s)]
           /\ seen' = [seen EXCEPT ![i] = mesh]
           /\ vol' = [vol EXCEPT ![i] = marked]
           /\ trimesh' = IF s = "populate_from_trimesh"
                         THEN SharedAfterRasterize(trimesh) ELSE trimesh
           /\ IF fails
              THEN /\ stage' = [stage EXCEPT ![i] = Done]
                   /\ result' = [result EXCEPT ![i] = ErrTile(map_err(s))]
              ELSE IF after = Done
              THEN /\ stage' = [stage EXCEPT ![i] = Done]
                   /\ result' = [result EXCEPT ![i] = OkTile(tiled, coord, mesh)]
              ELSE /\ stage' = [stage EXCEPT ![i] = after]
                   /\ UNCHANGED result
    /\ UNCHANGED <<config, failAt, tiled, call, running, next, finished,
                   saved_error, full, ret>>
    /\ UNCHANGED unitVars


\* ------------------------------------------------------------ the collects
\* The indices of set S in increasing order.
Ascending(S) ==
    [k \in 1..Cardinality(S) |->
        CHOOSE i \in S : Cardinality({j \in S : j < i}) = k - 1]

\* Mutant of ParCollect: the items are appended as the workers deliver them.
ParCollect_ArrivalOrder(res, fin) ==
    LET oks == SelectSeq(fin, LAMBDA i : res[i].ok)
    IN  [k \in 1..Len(oks) |-> res[oks[k]].val[1]]

\* The collection rayon's collect builds from the Ok items the workers have
\* delivered: the items keep the order of the scattered Vec.
ParCollect(res, fin) ==
    LET oks == Ascending({fin[k] : k \in 1..Len(fin)} \cap {i \in DOMAIN res : res[i].ok})
    IN  [k \in 1..Len(oks) |-> res[oks[k]].val[1]]

\* The Vec the sequential collect has pushed n items to.
SeqCollect(res, n) == [k \in 1..n |-> res[k].val[1]]

\* Mutant of FromResults: the Err items are filtered out and the rest is
\* returned as Ok.
FromResults_KeepPartial(saved, items) ==
    [returned |-> TRUE, ok |-> TRUE, err |-> NoError, tiles |-> items]

\* The Result<Vec<NavmeshTile>, _> a collect returns: the saved error if
\* there is one (the collection is dropped), the collection otherwise.
FromResults(saved, items) ==
    IF saved # NoError
    THEN [returned |-> TRUE, ok |-> FALSE, err |-> saved, tiles |-> <<>>]
    ELSE [returned |-> TRUE, ok |-> TRUE, err |-> NoError, tiles |-> items]

\* The call the caller makes after call c.
NextCall(c) ==
    CASE c = "seq1" -> "seq2" [] c = "seq2" -> "par" [] c = "par" -> "end"

\* Sequential: the collect takes the Result of the tile that just returned;
\* Ok is pushed, Err is kept and ends the iteration.
SeqCollectItem ==
    /\ call \in {"seq1", "seq2"}
    /\ running
    /\ saved_error = NoError
    /\ next < NumTiles
    /\ stage[next + 1] = Done
    /\ IF result[next + 1].ok
       THEN next' = next + 1 /\ UNCHANGED saved_error
       ELSE saved_error' = result[next + 1].err /\ UNCHANGED next
    /\ UNCHANGED <<config, trimesh, failAt, tiled, call, running, stage, vol,
                   ran, seen, result, finished, full, ret>>
    /\ UNCHANGED unitVars

\* generate_tiles_sequential returns.
SeqReturn ==
    /\ call \in {"seq1", "seq2"}
    /\ running
    /\ saved_error # NoError \/ next = NumTiles
    /\ ret' = [ret EXCEPT ![call] = FromResults(saved_error, SeqCollect(result, next))]
    /\ running' = FALSE
    /\ call' = NextCall(call)
    /\ UNCHANGED <<config, trimesh, failAt, tiled, stage, vol, ran, seen,
                   result, next, finished, saved_error, full>>
    /\ UNCHANGED unitVars

\* Parallel: the worker that ran tile i hands its Result to the collect; the
\* first Err to arrive is saved and stops the iteration.
ParCollectItem(i) ==
    /\ i \in Tiles
    /\ call = "par"
    /\ running
    /\ stage[i] = Done
    /\ i \notin Delivered
    /\ finished' = Append(finished, i)
    /\ IF result[i].ok
       THEN UNCHANGED <<saved_error, full>>
       ELSE /\ saved_error' = IF saved_error = NoError THEN result[i].err ELSE saved_error
            /\ full' = TRUE
    /\ UNCHANGED <<config, trimesh, failAt, tiled, call, running, stage, vol,
                   ran, seen, result, next, ret>>
    /\ UNCHANGED unitVars

\* Mutant of ParJoined: the call returns once every tile has been handed to
\* a worker.
ParJoined_NoJoin == \A i \in Tiles : stage[i] > 0

\* The parallel iterator is exhausted and every worker has delivered: no
\* tile is running, and every tile was started unless an Err stopped the
\* iteration.
ParJoined ==
    /\ Busy = {}
    /\ full \/ \A i \in Tiles : stage[i] > 0

\* generate_tiles_parallel returns.
ParReturn ==
    /\ call = "par"
    /\ running
    /\ ParJoined
    /\ ret' = [ret EXCEPT !["par"] = FromResults(saved_error, ParCollect(result, finished))]
    /\ running' = FALSE
    /\ call' = NextCall(call)
    /\ UNCHANGED <<config, trimesh, failAt, tiled, stage, vol, ran, seen,
                   result, next, finished, saved_error, full>>
    /\ UNCHANGED unitVars

Next ==
    \/ New
    \/ Begin
    \/ SeqStartTile
    \/ \E i \in Tiles : ParStartTile(i)
    \/ \E i \in Tiles : GenerateTileStep(i)
    \/ SeqCollectItem
    \/ \E i \in Tiles : ParCollectItem(i)
    \/ SeqReturn
    \/ ParReturn

Spec == Init /\ [][Next]_vars

\* Fair scheduling: a worker that can run a stage of its tile, start a tile
\* or deliver a result eventually does, and a call that can enter or
\* return eventually does.  Every stage terminates (a stage is one step).
Fairness ==
    /\ WF_vars(New) /\ WF_vars(Begin)
    /\ WF_vars(SeqStartTile) /\ WF_vars(SeqCollectItem)
    /\ WF_vars(SeqReturn) /\ WF_vars(ParReturn)
    /\ \A i \in 1..MaxTiles :
          /\ WF_vars(ParStartTile(i))
          /\ WF_vars(GenerateTileStep(i))
          /\ WF_vars(ParCollectItem(i))

\* The inputs of the fair runs: tiles fail at rasterization or not at all.
InitFair ==
    Init /\ \A c \in DOMAIN failAt : failAt[c] \in {"none", "populate_from_trimesh"}

FairSpec == InitFair /\ [][Next]_vars /\ Fairness

\* ----------------------------------------------------------------- claims
Calls == {"seq1", "seq2", "par"}

\* No stage of any tile fails for this input.
AllSucceed == \A c \in DOMAIN failAt : failAt[c] = "none"

\* The per-tile state describes a call that has returned.
JustReturned == ~running /\ ret["seq1"].returned

\* The value that call returned.
LastRet ==
    IF call = "seq2" THEN ret["seq1"] ELSE IF call = "par" THEN ret["seq2"] ELSE ret["par"]

\* C1: when every tile succeeds, each variant of generate_tiles returns
\* exactly tiles_x * tiles_z tiles and the i-th tile carries the i-th
\* coordinate in row-major order (z outer, x inner), whatever the order in
\* which the workers delivered.
C1_TilesInScatterOrder ==
    \A c \in Calls :
        (ret[c].returned /\ AllSucceed) =>
            /\ ret[c].ok
            /\ Len(ret[c].tiles) = tiled.tiles_x * tiled.tiles_z
            /\ \A i \in 1..Len(ret[c].tiles) :
                  ret[c].tiles[i].coord =
                      [x |-> (i - 1) % tiled.tiles_x, z |-> (i - 1) \div tiled.tiles_x]

\* C1 witness: a 2 x 2 grid whose tiles were delivered out of scatter order
\* and whose parallel call returned Ok.
C1_Witness ==
    /\ ret["par"].returned /\ ret["par"].ok
    /\ tiled.tiles_x = 2 /\ tiled.tiles_z = 2
    /\ Len(finished) = 4 /\ finished[1] = 4 /\ finished[2] = 2

\* C2: when no tile fails, generate_tiles_parallel returns the same value as
\* generate_tiles_sequential, under every interleaving of the workers.
C2_ParallelEqualsSequential ==
    (ret["par"].returned /\ AllSucceed) => ret["par"] = ret["seq1"]

\* C2 witness: the parallel call returned Ok for several tiles after two
\* tiles had been in flight together and the later one delivered first.
C2_Witness ==
    /\ ret["par"].returned /\ ret["par"].ok
    /\ Len(ret["par"].tiles) >= 2
    /\ \E k \in 1..(Len(finished) - 1) : finished[k] > finished[k + 1]

\* C3: the second run of generate_tiles_sequential returns what the first
\* run returned, Ok or Err.
C3_SequentialRepeatable ==
    ret["seq2"].returned => ret["seq2"] = ret["seq1"]

\* C3 witness: the second sequential run has returned Err after collecting
\* at least one tile.
C3_Witness ==
    /\ call = "par" /\ ~running
    /\ ret["seq2"].returned /\ ~ret["seq2"].ok
    /\ next >= 1

C5_ErrDiscardsTiles ==
    \A c \in Calls :
        (ret[c].returned /\ ~AllSucceed) => ~ret[c].ok /\ ret[c].tiles = <<>>

\* C5 witness: the parallel call returned Err although a tile delivered Ok
\* before the failure and another delivered Ok after it.
C5_Witness ==
    /\ ret["par"].returned /\ ~ret["par"].ok
    /\ \E k, l, m \in 1..Len(finished) :
          /\ k < l /\ l < m
          /\ result[finished[k]].ok /\ ~result[finished[l]].ok /\ result[finished[m]].ok

\* C6 (as claimed): when tiles fail, generate_tiles_parallel returns the
\* error of the failing tile that comes first in scatter order, which is the
\* error generate_tiles_sequential returns.
C6_ParallelReportsFirstInScatterOrder ==
    (ret["par"].returned /\ ~AllSucceed) =>
        LET failing == {i \in Tiles : failAt[CoordOf(i)] # "none"}
            first == CHOOSE i \in failing : \A j \in failing : i <= j
        IN  /\ ret["par"].err.msg = failAt[CoordOf(first)]
            /\ ret["par"].err = ret["seq1"].err

\* C7: a tile whose stage fails returns the error kind of that stage, runs
\* no stage after it and never returns Ok; no tile returns TilingNotEnabled.
C7_StageErrorPropagates ==
    \A i \in DOMAIN stage :
        LET s == failAt[CoordOf(i)]
            kind == [build |-> "HeightfieldBuild",
                     populate_from_trimesh |-> "Rasterization",
                     into_compact |-> "CompactHeightfield",
                     build_regions |-> "RegionBuild",
                     into_polygon_mesh |-> "PolygonMesh",
                     DetailNavmesh_new |-> "DetailMesh"]
        IN  /\ \A k \in 1..(Len(ran[i]) - 1) : ran[i][k] # s
            /\ result[i].err.kind # "TilingNotEnabled"
            /\ stage[i] = Done =>
                  /\ result[i].ok <=> s = "none"
                  /\ s # "none" =>
                        /\ result[i].err.kind = kind[s]
                        /\ ran[i][Len(ran[i])] = s

\* C7 witness: a tile has returned RegionBuild after marking its volumes.
C7_Witness ==
    \E i \in DOMAIN stage :
        /\ stage[i] = Done
        /\ result[i].err.kind = "RegionBuild"
        /\ vol[i] = tiled.config.area_volumes

\* C8 (state part): a call that returned Ok left no tile unstarted or
\* running, and a call returns only when every tile has returned or some
\* tile has failed.
C8_DecidedAtReturn ==
    JustReturned =>
        /\ LastRet.ok => \A i \in Tiles : stage[i] = Done /\ result[i].ok
        /\ \/ \A i \in Tiles : stage[i] = Done
           \/ \E i \in Tiles : stage[i] = Done /\ ~result[i].ok

\* C8: generate_tiles blocks until the batch is decided, and under fair
\* scheduling every call that was entered returns.
C8_BlocksUntilDecided ==
    /\ []C8_DecidedAtReturn
    /\ [](running => <>(~running))

\* C8 witness: the parallel call returned Ok on a grid of four tiles.
C8_Witness ==
    /\ call = "end" /\ ret["par"].returned /\ ret["par"].ok
    /\ NumTiles = 4

\* C9: no step of a generate_tiles call changes the shared TriMesh or the
\* TiledNavmeshConfig, whether the call succeeds or fails.
C9_InputsUnchanged ==
    [][call # "new" => (trimesh' = trimesh /\ tiled' = tiled /\ config' = config)]_vars

\* C9 witness: the parallel call returned Err after at least two tiles
\* rasterized their clone of the mesh.
C9_Witness ==
    /\ ret["par"].returned /\ ~ret["par"].ok
    /\ Cardinality({i \in Tiles : seen[i] # "none"}) >= 2

\* C10 (as claimed): for every accepted config tiles_x and tiles_z are the
\* ceilings of the world extents over tile_size * cell_size, hence >= 1 for
\* a positive extent.
C10_TilesAreCeil ==
    (call # "new" /\ tiled.ok) =>
        LET tile_world_size == config.tile_size * config.cell_size
            world_width == config.aabb.max.x - config.aabb.min.x
            world_height == config.aabb.max.z - config.aabb.min.z
        IN  /\ tiled.tiles_x * tile_world_size >= world_width
            /\ (tiled.tiles_x - 1) * tile_world_size < world_width
            /\ tiled.tiles_z * tile_world_size >= world_height
            /\ (tiled.tiles_z - 1) * tile_world_size < world_height

\* ======================================================================
\* tile_coords and tile_aabb on their own: a caller builds the
\* TiledNavmeshConfig, pulls the tile_coords() iterator and asks tile_aabb
\* for each coordinate it got (test_tile_coord_generation,
\* test_tile_aabb_calculation).
\* ======================================================================
\* Largest number of items the caller pulls from tile_coords().
MaxYield == 12

\* Config.border_size (voxels) of the grids this caller builds.
GridBorderSizes == {0, 3}
\* World extent on X and on Z, tenths of a world unit.
GridExtents == {0, 48, 50, 1000}

GridConfigs ==
    [tile_size : TileSizes, cell_size : CellSizes, border_size : GridBorderSizes,
     area_volumes : VolumeCounts,
     aabb : {[min |-> [x |-> o, y |-> 0, z |-> o],
              max |-> [x |-> o + w, y |-> 100, z |-> o + h]] :
                 o \in Origins, w \in GridExtents, h \in GridExtents}]

\* The variables of the generate_tiles calls.
tileVars == <<running, stage, vol, ran, seen, result, next, finished,
              saved_error, full, ret>>

\* No generate_tiles call is made.
TilesIdle ==
    /\ trimesh \in TriMeshes
    /\ failAt = <<>>
    /\ running = FALSE
    /\ stage = <<>>
    /\ vol = <<>>
    /\ ran = <<>>
    /\ seen = <<>>
    /\ result = <<>>
    /\ next = 0
    /\ finished = <<>>
    /\ saved_error = NoError
    /\ full = FALSE
    /\ ret = [c \in {"seq1", "seq2", "par"} |-> NotReturned]

InitGrid ==
    /\ config \in GridConfigs
    /\ tiled = [ok |-> FALSE, err |-> NoError, config |-> config,
                tiles_x |-> 0, tiles_z |-> 0]
    /\ call = "new"
    /\ TilesIdle
    /\ UnitIdle

\* Iterator::next on tiled.tile_coords(): the next coordinate, or None.
TileCoordsNext ==
    /\ call # "new"
    /\ tiled.ok
    /\ ~exhausted
    /\ Len(yielded) < MaxYield
    /\ IF Len(yielded) + 1 \in DOMAIN tile_coords(tiled)
       THEN /\ yielded' = Append(yielded, tile_coords(tiled)[Len(yielded) + 1])
            /\ UNCHANGED exhausted
       ELSE /\ exhausted' = TRUE
            /\ UNCHANGED yielded
    /\ UNCHANGED <<config, trimesh, failAt, tiled, call, tileVars, boxes, markVars,
                   distVars>>

\* tiled.tile_aabb(coord) for the next yielded coordinate.
TileAabb ==
    /\ Len(boxes) < Len(yielded)
    /\ boxes' = Append(boxes, tile_aabb(tiled, yielded[Len(boxes) + 1]))
    /\ UNCHANGED <<config, trimesh, failAt, tiled, call, tileVars, yielded, exhausted,
                   markVars, distVars>>

NextGrid ==
    \/ New
    \/ TileCoordsNext
    \/ TileAabb

GridSpec == InitGrid /\ [][NextGrid]_vars

C12_TileCoordsEnumerateGrid ==
    (call # "new" /\ tiled.ok) =>
        /\ \A k \in 1..Len(yielded) :
               /\ yielded[k].x \in 0..(tiled.tiles_x - 1)
               /\ yielded[k].z \in 0..(tiled.tiles_z - 1)
        /\ \A j, k \in 1..Len(yielded) : j # k => yielded[j] # yielded[k]
        /\ (tiled.tiles_x = 0 \/ tiled.tiles_z = 0) => yielded = <<>>
        /\ exhausted =>
               /\ Len(yielded) = tiled.tiles_x * tiled.tiles_z
               /\ Len(yielded) = tile_count(tiled)
               /\ {yielded[k] : k \in 1..Len(yielded)} =
                      {[x |-> x, z |-> z] : x \in 0..(tiled.tiles_x - 1),
                                            z \in 0..(tiled.tiles_z - 1)}

\* The iterator of a grid with several rows and columns is exhausted.
C12_Witness ==
    /\ exhausted
    /\ tiled.tiles_x > 1
    /\ tiled.tiles_z > 1
    /\ Len(yielded) = tile_count(tiled)


\* ======================================================================
\* Stage order inside generate_tile.
\* ======================================================================
\* The stage calls of one tile with nv area volumes, as the pipeline
\* description orders them.
StageOrder(nv) ==
    <<"build", "populate_from_trimesh", "into_compact", "erode_walkable_area">>
    \o [k \in 1..nv |-> "mark_convex_poly_area"]
    \o <<"build_distance_field", "build_regions", "build_contours",
         "into_polygon_mesh", "DetailNavmesh_new">>

\* C13: within one tile the stages run one after another in the order
\* heightfield build, rasterization, compact heightfield, erosion, one
\* marking per area volume in the order of config.area_volumes (the k-th
\* marking applies volume k), distance field, region build, contours,
\* polygon mesh, detail mesh: what a tile has run is always a prefix of
\* that order, and the whole of it once the tile has returned Ok.
C13_StagesInPipelineOrder ==
    \A i \in DOMAIN stage :
        LET order == StageOrder(tiled.config.area_volumes)
            marks == {k \in 1..Len(ran[i]) : ran[i][k] = "mark_convex_poly_area"}
        IN  /\ Len(ran[i]) <= Len(order)
            /\ ran[i] = SubSeq(order, 1, Len(ran[i]))
            /\ vol[i] = Cardinality(marks)
            /\ vol[i] <= tiled.config.area_volumes
            /\ (stage[i] = Done /\ result[i].ok) => ran[i] = order
            /\ (stage[i] \in 1..Len(Stages) /\ Len(ran[i]) > 0) =>
                   Stages[stage[i]] = order[Len(ran[i]) + 1]

\* A tile has run every stage, its volumes included, and returned Ok.
C13_Witness ==
    \E i \in DOMAIN stage :
        /\ stage[i] = Done
        /\ result[i].ok
        /\ vol[i] = 2
        /\ Len(ran[i]) = Len(Stages) + 1


\* ======================================================================
\* CompactHeightfield::mark_convex_poly_area (mark_convex_poly_area.rs).
\*
\* World X coordinates of the heightfield are f32 values held as integers
\* counted in 2^-27 world units; vertices and the Z coordinates of the cell
\* centres are whole world units, the volume's min_y and max_y are counted
\* in half units.  cell_size and cell_height are 1.0 and aabb.min.z is -0.5,
\* so 1.0 / cell_size, (x + 0.5) * cell_size and point_z are exact; every
\* other f32 operation of the source is rounded to nearest, ties to even,
\* on a 24 bit significand, as f32 does.
\* ======================================================================
\* 1.0 in the fixed-point unit of X coordinates: 2^27.
One == 134217728
\* 0.5 in that unit.
Half == One \div 2
\* Number of values of an f32 significand: 2^24.
Significand == 16777216

\* a / b rounded to the nearest integer, ties to even (a >= 0, b > 0).
RoundNearestEven(a, b) ==
    LET fl == a \div b
        r == a % b
    IN  IF 2 * r > b THEN fl + 1
        ELSE IF 2 * r = b THEN fl + (fl % 2)
        ELSE fl

Abs(v) == IF v < 0 THEN -v ELSE v

\* An f32 that holds the value s * 2^-27.
RECURSIVE DropBits(_, _)
DropBits(a, k) == IF a \div (2 ^ k) < Significand THEN k ELSE DropBits(a, k + 1)

F32(s) ==
    LET k == DropBits(Abs(s), 0)
        r == RoundNearestEven(Abs(s), 2 ^ k) * (2 ^ k)
    IN  IF s < 0 THEN -r ELSE r

\* f32 addition and subtraction of two values in 2^-27 units.
F32Add(a, b) == F32(a + b)
F32Sub(a, b) == F32(a - b)

\* f32 division n / d of two whole numbers (1/16 <= |n / d| < 16, or n = 0),
\* in 2^-27 units.
RECURSIVE ScaleUp(_, _, _)
ScaleUp(n, d, e) ==
    IF n >= (Significand \div 2) * d THEN <<n, e>> ELSE ScaleUp(2 * n, d, e + 1)

F32Div(n, d) ==
    IF n = 0 THEN 0
    ELSE LET sc == ScaleUp(Abs(n), Abs(d), 0)
             m == RoundNearestEven(sc[1], Abs(d))
             q == m * (2 ^ (27 - sc[2]))
         IN  IF (n < 0) = (d < 0) THEN q ELSE -q

\* The whole number w as an X coordinate.
ToX(w) == w * One

\* Rust's `as i32` on an f32 held in 2^-27 units: truncation toward zero.
AsI32(q) == IF q < 0 THEN -((-q) \div One) ELSE q \div One

\* `as i32` on a length counted in half units.
HalfAsI32(h) == IF h < 0 THEN -((-h) \div 2) ELSE h \div 2

\* AreaType::NULL_AREA and AreaType::DEFAULT_WALKABLE.
NULL_AREA == 0
DEFAULT_WALKABLE == 63

\* AreaType::is_walkable.
is_walkable(area) == area # NULL_AREA

\* ---------------------------------------------------------------- inputs
\* Largest number of mark_convex_poly_area calls made on one heightfield.
MaxMarks == 2

\* aabb.min.x of the heightfield: -0.5, and the f32 below -1/6 that puts the
\* centre of cell 0 at 1.0 - (2.0 / 3.0), computed in f32.
OxThird == -22369624
MarkOriginsX == {-Half, OxThird}

\* areas of the seven spans.
AreaPatterns ==
    {<<63, 63, 63, 63, 63, 63, 63>>,
     <<63, 0, 63, 5, 63, 0, 63>>,
     <<0, 5, 0, 63, 0, 0, 5>>}

\* A 2 x 3 compact heightfield with seven spans: cell (x, z) is
\* cells[x + z * width + 1], a cell's spans are spans[index + 1 .. index + count].
Heightfield(ox, areas) ==
    [width |-> 2, height |-> 3, cell_size |-> 1, cell_height |-> 1,
     aabb_min |-> [x |-> ox, y |-> 0, z |-> -Half],
     cells |-> <<[index |-> 0, count |-> 1], [index |-> 1, count |-> 2],
                 [index |-> 3, count |-> 1], [index |-> 4, count |-> 0],
                 [index |-> 4, count |-> 1], [index |-> 5, count |-> 2]>>,
     spans |-> <<[y |-> 0], [y |-> 0], [y |-> 2], [y |-> 1], [y |-> 0],
                 [y |-> 1], [y |-> 3]>>,
     areas |-> areas,
     dist |-> <<0, 0, 0, 0, 0, 0, 0>>,
     max_distance |-> 0]

Heightfields == {Heightfield(ox, a) : ox \in MarkOriginsX, a \in AreaPatterns}

V(x, z) == [x |-> x, y |-> z]

\* ConvexVolume::vertices: nothing, a point, a segment, three collinear
\* points, a rectangle and a triangle around the whole grid, polygons inside
\* it, beside it and beyond it.
VertexLists ==
    {<<>>,
     <<V(1, 1)>>,
     <<V(0, 0), V(1, 3)>>,
     <<V(0, 0), V(1, 3), V(2, 6)>>,
     <<V(-1, -1), V(3, -1), V(3, 4), V(-1, 4)>>,
     <<V(-2, -1), V(6, -1), V(-2, 7)>>,
     <<V(0, 0), V(1, 3), V(0, 3)>>,
     <<V(0, 0), V(2, 0), V(2, 2), V(0, 2)>>,
     <<V(-3, 0), V(-1, 0), V(-1, 1)>>,
     <<V(3, 0), V(5, 0), V(4, 2)>>}

\* ConvexVolume::min_y and max_y, half units.
YRanges == {<<-2, 20>>, <<1, 3>>}
\* ConvexVolume::area.
VolumeAreas == {NULL_AREA, DEFAULT_WALKABLE}

Volumes ==
    {[vertices |-> vs, min_y |-> yr[1], max_y |-> yr[2], area |-> a] :
        vs \in VertexLists, yr \in YRanges, a \in VolumeAreas}

\* ------------------------------------------------------ point_in_poly_fast
\* The right-hand side of the crossing test for the edge from vertex vj to
\* vertex vi: (xj - xi) * (py - yi) / (yj - yi) + xi.
CrossingX(vi, vj, py) ==
    F32Add(F32Div((vj.x - vi.x) * (py - vi.y), vj.y - vi.y), ToX(vi.x))

\* point_in_poly_fast(point, vertices): `inside` is toggled once for every i
\* whose edge (j = i - 1, the last vertex for the first i) passes the test.
point_in_poly_fast(px, py, vertices) ==
    LET n == Len(vertices)
        j(i) == IF i = 1 THEN n ELSE i - 1
        toggles == {i \in 1..n :
                       /\ (vertices[i].y > py) # (vertices[j(i)].y > py)
                       /\ px < CrossingX(vertices[i], vertices[j(i)], py)}
    IN  Cardinality(toggles) % 2 = 1

\* --------------------------------------------------- mark_convex_poly_area
SetMin(S) == CHOOSE m \in S : \A v \in S : m <= v
SetMax(S) == CHOOSE m \in S : \A v \in S : m >= v

\* Aabb2d::from_verts(vertices), for a list that is not empty.
from_verts(vertices) ==
    LET xs == {vertices[i].x : i \in 1..Len(vertices)}
        ys == {vertices[i].y : i \in 1..Len(vertices)}
    IN  [min |-> [x |-> SetMin(xs), y |-> SetMin(ys)],
         max |-> [x |-> SetMax(xs), y |-> SetMax(ys)]]

\* The centre of cell (x, z): aabb.min + (cell + 0.5) * cell_size.
CellCentre(self, x, z) ==
    [x |-> F32Add(self.aabb_min.x, (2 * x + 1) * Half), y |-> z]

\* The grid footprint of the volume before clamping: min and max of lines
\* 26-35, `as i32` included.
RawFootprint(self, cv) ==
    LET aabb == from_verts(cv.vertices)
    IN  [min |-> [x |-> AsI32(F32Sub(ToX(aabb.min.x), self.aabb_min.x)),
                  y |-> HalfAsI32(cv.min_y - 2 * self.aabb_min.y),
                  z |-> AsI32(ToX(aabb.min.y) - self.aabb_min.z)],
         max |-> [x |-> AsI32(F32Sub(ToX(aabb.max.x), self.aabb_min.x)),
                  y |-> HalfAsI32(cv.max_y - 2 * self.aabb_min.y),
                  z |-> AsI32(ToX(aabb.max.y) - self.aabb_min.z)]]

IMax(a, b) == IF a > b THEN a ELSE b
IMin(a, b) == IF a < b THEN a ELSE b

\* Mutant of Footprint: the loops run over min..max instead of min..=max.
Footprint_Exclusive(self, raw) ==
    {<<x, z>> : x \in IMax(raw.min.x, 0)..(IMin(raw.max.x, self.width - 1) - 1),
                z \in IMax(raw.min.z, 0)..(IMin(raw.max.z, self.height - 1) - 1)}

\* The cells the loops of lines 54-58 visit: the footprint clamped to the
\* grid.
Footprint(self, raw) ==
    {<<x, z>> : x \in IMax(raw.min.x, 0)..IMin(raw.max.x, self.width - 1),
                z \in IMax(raw.min.z, 0)..IMin(raw.max.z, self.height - 1)}

\* The span indices of cell (x, z).
SpansOf(self, x, z) ==
    LET cell == self.cells[x + z * self.width + 1]
    IN  (cell.index + 1)..(cell.index + cell.count)

\* Mutant of mark_convex_poly_area: an empty volume drops the distance field.
mark_convex_poly_area_EmptyResets(self, cv) ==
    IF cv.vertices = <<>> THEN [self EXCEPT !.dist = <<>>, !.max_distance = 0]
    ELSE LET raw == RawFootprint(self, cv)
         IN  IF \/ raw.max.x < 0 \/ raw.min.x >= self.width
                \/ raw.max.z < 0 \/ raw.min.z >= self.height
             THEN self
             ELSE LET hit == {i \in DOMAIN self.areas :
                                 \E c \in Footprint(self, raw) :
                                     /\ i \in SpansOf(self, c[1], c[2])
                                     /\ point_in_poly_fast(
                                            CellCentre(self, c[1], c[2]).x,
                                            CellCentre(self, c[1], c[2]).y,
                                            cv.vertices)
                                     /\ is_walkable(self.areas[i])
                                     /\ self.spans[i].y >= raw.min.y
                                     /\ self.spans[i].y <= raw.max.y}
                  IN  [self EXCEPT !.areas =
                          [i \in DOMAIN self.areas |->
                              IF i \in hit THEN cv.area ELSE self.areas[i]]]

\* Mutant of mark_convex_poly_area: spans that are not walkable are marked too.
mark_convex_poly_area_MarksAny(self, cv) ==
    IF cv.vertices = <<>> THEN self
    ELSE LET raw == RawFootprint(self, cv)
         IN  IF \/ raw.max.x < 0 \/ raw.min.x >= self.width
                \/ raw.max.z < 0 \/ raw.min.z >= self.height
             THEN self
             ELSE LET hit == {i \in DOMAIN self.areas :
                                 \E c \in Footprint(self, raw) :
                                     /\ i \in SpansOf(self, c[1], c[2])
                                     /\ point_in_poly_fast(
                                            CellCentre(self, c[1], c[2]).x,
                                            CellCentre(self, c[1], c[2]).y,
                                            cv.vertices)
                                     /\ self.spans[i].y >= raw.min.y
                                     /\ self.spans[i].y <= raw.max.y}
                  IN  [self EXCEPT !.areas =
                          [i \in DOMAIN self.areas |->
                              IF i \in hit THEN cv.area ELSE self.areas[i]]]

\* self.mark_convex_poly_area(volume): the value of self when it returns.
mark_convex_poly_area(self, cv) ==
    IF cv.vertices = <<>> THEN self
    ELSE LET raw == RawFootprint(self, cv)
         IN  IF \/ raw.max.x < 0 \/ raw.min.x >= self.width
                \/ raw.max.z < 0 \/ raw.min.z >= self.height
             THEN self
             ELSE LET hit == {i \in DOMAIN self.areas :
                                 \E c \in Footprint(self, raw) :
                                     /\ i \in SpansOf(self, c[1], c[2])
                                     /\ point_in_poly_fast(
                                            CellCentre(self, c[1], c[2]).x,
                                            CellCentre(self, c[1], c[2]).y,
                                            cv.vertices)
                                     /\ is_walkable(self.areas[i])
                                     /\ self.spans[i].y >= raw.min.y
                                     /\ self.spans[i].y <= raw.max.y}
                  IN  [self EXCEPT !.areas =
                          [i \in DOMAIN self.areas |->
                              IF i \in hit THEN cv.area ELSE self.areas[i]]]

\* No tile is generated: the orchestrator's variables stay as they are.
NoTiling ==
    /\ config = <<>>
    /\ tiled = <<>>
    /\ call = "end"
    /\ TilesIdle

InitMark ==
    /\ NoTiling
    /\ GridIdle
    /\ DistIdle
    /\ chf \in Heightfields
    /\ prev = chf
    /\ volume = <<>>
    /\ nmarks = 0
    /\ area_volumes = <<>>
    /\ unmarked = chf

\* chf.mark_convex_poly_area(&cv)
MarkConvexPolyArea(cv) ==
    /\ nmarks < MaxMarks
    /\ prev' = chf
    /\ volume' = cv
    /\ chf' = mark_convex_poly_area(chf, cv)
    /\ nmarks' = nmarks + 1
    /\ UNCHANGED <<config, trimesh, failAt, tiled, call, tileVars, gridVars, distVars,
                   area_volumes, unmarked>>

NextMark == \E cv \in Volumes : MarkConvexPolyArea(cv)

MarkSpec == InitMark /\ [][NextMark]_vars

\* ------------------------------------------- the loop over area_volumes
\* The areas of config.area_volumes: NULL_AREA and two walkable areas.
LoopAreas == {NULL_AREA, 5, DEFAULT_WALKABLE}

\* The volumes config.area_volumes is made of: a rectangle around the whole
\* grid and a square over its cells with z < 2, over all spans or over the
\* spans with y in 0..1.
LoopVolumes ==
    {[vertices |-> vs, min_y |-> yr[1], max_y |-> yr[2], area |-> a] :
        vs \in {<<V(-1, -1), V(3, -1), V(3, 4), V(-1, 4)>>,
                <<V(0, 0), V(2, 0), V(2, 2), V(0, 2)>>},
        yr \in YRanges, a \in LoopAreas}

\* generate_tile reaches the loop over config.area_volumes with a compact
\* heightfield and a configuration of at most MaxMarks volumes.
InitMarkLoop ==
    /\ NoTiling
    /\ GridIdle
    /\ DistIdle
    /\ chf \in Heightfields
    /\ prev = chf
    /\ volume = <<>>
    /\ nmarks = 0
    /\ area_volumes \in UNION {[1..n -> LoopVolumes] : n \in 0..MaxMarks}
    /\ unmarked = chf

\* One iteration of `for volume in &self.config.area_volumes`:
\* compact_heightfield.mark_convex_poly_area(volume) for the next volume.
MarkNextVolume ==
    /\ nmarks < Len(area_volumes)
    /\ prev' = chf
    /\ volume' = area_volumes[nmarks + 1]
    /\ chf' = mark_convex_poly_area(chf, volume')
    /\ nmarks' = nmarks + 1
    /\ UNCHANGED <<config, trimesh, failAt, tiled, call, tileVars, gridVars, distVars,
                   area_volumes, unmarked>>

NextMarkLoop == MarkNextVolume

MarkLoopSpec == InitMarkLoop /\ [][NextMarkLoop]_vars

\* The call whose effect the claims below describe has been made.
Marked == nmarks > 0

\* The volume's inclusive voxel range on Y (min.y and max.y of lines 51-52).
YVoxels(self, cv) ==
    HalfAsI32(cv.min_y - 2 * self.aabb_min.y)..HalfAsI32(cv.max_y - 2 * self.aabb_min.y)

\* The centre of cell (x, z) passes the even-odd crossing test.
CentreInside(self, cv, x, z) ==
    /\ cv.vertices # <<>>
    /\ point_in_poly_fast(CellCentre(self, x, z).x, CellCentre(self, x, z).y,
                          cv.vertices)

\* C14: after mark_convex_poly_area(volume), for every cell of the grid and
\* every span of it: the span's area is volume.area exactly when it was
\* walkable, its cell's centre passes the even-odd crossing test and its
\* floor y is in the volume's inclusive voxel range, or it had that area
\* already; every other span keeps its area.  The scan of the clamped
\* bounding-box footprint therefore skips no cell whose centre is inside.
C14_MarkedIffInsideWalkableInRange ==
    Marked =>
        \A x \in 0..(prev.width - 1), z \in 0..(prev.height - 1) :
            \A i \in SpansOf(prev, x, z) :
                LET hit == /\ is_walkable(prev.areas[i])
                           /\ CentreInside(prev, volume, x, z)
                           /\ prev.spans[i].y \in YVoxels(prev, volume)
                IN  /\ chf.areas[i] = volume.area <=>
                           (hit \/ prev.areas[i] = volume.area)
                    /\ ~hit => chf.areas[i] = prev.areas[i]

\* A polygon has re-marked a span and left alone a walkable span of another
\* area.
C14_Witness ==
    /\ Marked
    /\ Len(volume.vertices) >= 3
    /\ \E i, k \in DOMAIN chf.areas :
           /\ chf.areas[i] # prev.areas[i]
           /\ is_walkable(prev.areas[k])
           /\ chf.areas[k] = prev.areas[k]
           /\ prev.areas[k] # volume.area

\* (b - a) x (p - a): positive when p is left of the line from a to b.
Cross(a, b, p) == (b.x - a.x) * (p.y - a.y) - (b.y - a.y) * (p.x - a.x)

\* p is inside or on the convex polygon, whatever its winding.
ConvexContains(vertices, p) ==
    LET n == Len(vertices)
        side(i) == Cross(vertices[i], vertices[(i % n) + 1], p)
    IN  /\ n >= 3
        /\ \/ \A i \in 1..n : side(i) >= 0
           \/ \A i \in 1..n : side(i) <= 0

\* The polygon contains the heightfield's AABB on XZ: it contains the
\* corners of the smallest rectangle of whole coordinates around it.
CoversGrid(self, cv) ==
    LET lo == [x |-> self.aabb_min.x \div One, y |-> self.aabb_min.z \div One]
        hi == [x |-> -((-(self.aabb_min.x + self.width * One)) \div One),
               y |-> -((-(self.aabb_min.z + self.height * One)) \div One)]
    IN  \A p \in {V(lo.x, lo.y), V(hi.x, lo.y), V(hi.x, hi.y), V(lo.x, hi.y)} :
            ConvexContains(cv.vertices, p)

\* [min_y, max_y] covers the floor of every span.
CoversFloors(self, cv) ==
    \A i \in DOMAIN self.spans :
        /\ cv.min_y <= 2 * (self.aabb_min.y + self.spans[i].y)
        /\ 2 * (self.aabb_min.y + self.spans[i].y) <= cv.max_y

\* C15: a convex volume whose polygon contains the whole heightfield AABB on
\* XZ and whose [min_y, max_y] covers every span floor sets every walkable
\* span to volume.area and leaves every non-walkable span NULL_AREA.
C15_CoveringVolumeMarksAllWalkable ==
    (Marked /\ CoversGrid(prev, volume) /\ CoversFloors(prev, volume)) =>
        \A i \in DOMAIN chf.areas :
            chf.areas[i] = IF is_walkable(prev.areas[i]) THEN volume.area
                           ELSE NULL_AREA

\* A covering volume of area 63 has re-marked a span of a heightfield that
\* has non-walkable spans too.
C15_Witness ==
    /\ Marked
    /\ CoversGrid(prev, volume)
    /\ CoversFloors(prev, volume)
    /\ volume.area = DEFAULT_WALKABLE
    /\ \E i, k \in DOMAIN chf.areas :
           /\ prev.areas[i] # DEFAULT_WALKABLE
           /\ chf.areas[i] = DEFAULT_WALKABLE
           /\ ~is_walkable(prev.areas[k])

\* C16: mark_convex_poly_area with an empty vertex list returns without
\* changing any field of the compact heightfield (areas, spans, cells, dist,
\* max_distance), whatever min_y, max_y and area the volume carries.
C16_EmptyVolumeChangesNothing ==
    (Marked /\ volume.vertices = <<>>) => chf = prev

\* An empty volume of area NULL_AREA whose Y range covers every floor was
\* applied to a heightfield with walkable spans.
C16_Witness ==
    /\ Marked
    /\ volume.vertices = <<>>
    /\ volume.area = NULL_AREA
    /\ CoversFloors(prev, volume)
    /\ \E i \in DOMAIN prev.areas : is_walkable(prev.areas[i])

\* The vertices span no area: one point, or all on one line.
ZeroArea(vertices) ==
    /\ vertices # <<>>
    /\ \A i, k \in 1..Len(vertices) : Cross(vertices[1], vertices[i], vertices[k]) = 0

\* C17: a zero-area volume (one vertex, two vertices, or any number of
\* collinear vertices) marks nothing: every span keeps its area.
C17_ZeroAreaVolumeMarksNothing ==
    (Marked /\ ZeroArea(volume.vertices)) => chf = prev

Reverse(s) == [i \in 1..Len(s) |-> s[Len(s) + 1 - i]]
Rotate(s, r) == [i \in 1..Len(s) |-> s[((i - 1 + r) % Len(s)) + 1]]

\* The vertex lists with the same outline: every cyclic rotation of the list
\* and of its reversal.
SameOutline(vertices) ==
    {Rotate(vertices, r) : r \in 0..(Len(vertices) - 1)}
    \cup {Rotate(Reverse(vertices), r) : r \in 0..(Len(vertices) - 1)}

\* C18: mark_convex_poly_area gives the same areas for the volume, for the
\* volume with its vertex list reversed and for every cyclic rotation of the
\* list.
C18_WindingAndRotationIrrelevant ==
    Marked =>
        \A vs \in SameOutline(volume.vertices) :
            mark_convex_poly_area(prev, [volume EXCEPT !.vertices = vs]).areas
                = chf.areas

\* ---------------------------------------------------------------------------
\* build_distance_field (watershed_distance_field.rs).  A span index i of the
\* source is the index i + 1 here; cells are numbered 0.. in the order of the
\* loops "for z in 0..height { for x in 0..width".  u16 values are integers in
\* 0..U16_MAX.
\* ---------------------------------------------------------------------------

\* Option::None of span.con(dir); Some(c) is the relative index c itself.
None == -1

\* CompactCell { index, count } and CompactSpan { y, con[0..4] }.
C(index, count) == [index |-> index, count |-> count]
S(y, c0, c1, c2, c3) == [y |-> y, con |-> <<c0, c1, c2, c3>>]

\* The offsets of the four directions, as the comments beside each use give
\* them: 0 is (-1,0), 1 is (0,1), 2 is (1,0), 3 is (0,-1).
dir_offset_x(dir) == <<-1, 0, 1, 0>>[dir + 1]
dir_offset_z(dir) == <<0, 1, 0, -1>>[dir + 1]

\* `v as u16` of an i32: the low 16 bits.
WrapU16(v) == v % (U16_MAX + 1)

\* a + b on u16 as the release build computes it (the debug build panics when
\* the sum exceeds U16_MAX).
AddU16(a, b) == (a + b) % (U16_MAX + 1)

\* threshold.saturating_mul(2)
saturating_mul(a, b) == IF a * b > U16_MAX THEN U16_MAX ELSE a * b

\* self.cell_at(x, z)
cell_at(self, x, z) == self.cells[x + z * self.width + 1]

\* span.con(dir) of span i
con(self, i, dir) == self.spans[i].con[dir + 1]

\* The number of cells, and the (x, z) of the k-th of them in loop order.
CellCount(self) == self.width * self.height
CellX(self, k) == k % self.width
CellZ(self, k) == k \div self.width

\* cell.index() .. max_index of cell (x, z), in order.
CellRange(self, x, z) ==
    LET cell == cell_at(self, x, z)
    IN  [j \in 1..cell.count |-> cell.index + j]

\* a_index: the span that connection c of direction dir leads to from (x, z).
Neighbour(self, x, z, dir, c) ==
    cell_at(self, WrapU16(x + dir_offset_x(dir)),
                  WrapU16(z + dir_offset_z(dir))).index + c + 1

\* Variant of connection_count: an absent connection counts as well.
connection_count_CountsAbsent(self, x, z, i) ==
    Cardinality({dir \in 0..3 :
        \/ con(self, i, dir) = None
        \/ self.areas[i] = self.areas[Neighbour(self, x, z, dir, con(self, i, dir))]})

\* connection_count of span i of cell (x, z): its connections to spans of its
\* own area.
connection_count(self, x, z, i) ==
    Cardinality({dir \in 0..3 :
        /\ con(self, i, dir) # None
        /\ self.areas[i] = self.areas[Neighbour(self, x, z, dir, con(self, i, dir))]})

\* Variant of relax: the block stops after the axis neighbour.
relax_NoDiagonal(self, df, x, z, i, v, dir, dir2) ==
    LET c == con(self, i, dir)
    IN  IF c = None THEN v
        ELSE IMin(v, AddU16(df[Neighbour(self, x, z, dir, c)], 2))

\* One `if let Some(con) = span.con(dir)` block of a pass: the value of
\* distance_field[i] after it, v being the value before.  dir2 is the
\* direction of the second connection, taken from the neighbour.
relax(self, df, x, z, i, v, dir, dir2) ==
    LET c == con(self, i, dir)
    IN  IF c = None THEN v
        ELSE LET a_x == WrapU16(x + dir_offset_x(dir))
                 a_z == WrapU16(z + dir_offset_z(dir))
                 a_index == cell_at(self, a_x, a_z).index + c + 1
                 va == IMin(v, AddU16(df[a_index], 2))
                 c2 == con(self, a_index, dir2)
             IN  IF c2 = None THEN va
                 ELSE LET b_x == WrapU16(a_x + dir_offset_x(dir2))
                          b_z == WrapU16(a_z + dir_offset_z(dir2))
                          b_index == cell_at(self, b_x, b_z).index + c2 + 1
                      IN  IMin(va, AddU16(df[b_index], 3))

\* The body of a pass for cell (x, z): every span of the cell goes through
\* the block of dirA (then dirA2) and the block of dirB (then dirB2).  The
\* spans a block reads lie in other cells, so the spans of one cell do not
\* read each other's new values.
pass_cell(self, df, x, z, dirA, dirA2, dirB, dirB2) ==
    LET own == {CellRange(self, x, z)[j] : j \in DOMAIN CellRange(self, x, z)}
    IN  [i \in DOMAIN df |->
            IF i \in own
            THEN relax(self, df, x, z, i,
                       relax(self, df, x, z, i, df[i], dirA, dirA2), dirB, dirB2)
            ELSE df[i]]

\* distance_field.iter().max().copied().unwrap_or_default()
max_or_default(df) ==
    IF df = <<>> THEN 0
    ELSE CHOOSE m \in {df[i] : i \in DOMAIN df} : \A i \in DOMAIN df : df[i] <= m

\* What one direction adds to d in the blur of span i of cell (x, z).
blur_term(self, field, x, z, i, cd, dir) ==
    LET c == con(self, i, dir)
    IN  IF c = None THEN cd * 2
        ELSE LET a_x == WrapU16(x + dir_offset_x(dir))
                 a_z == WrapU16(z + dir_offset_z(dir))
                 a_index == cell_at(self, a_x, a_z).index + c + 1
                 dir2 == (dir + 1) % 4
                 c2 == con(self, a_index, dir2)
             IN  field[a_index] +
                 (IF c2 = None THEN cd
                  ELSE field[cell_at(self, WrapU16(a_x + dir_offset_x(dir2)),
                                     WrapU16(a_z + dir_offset_z(dir2))).index + c2 + 1])

\* Variant of blur_value: the quotient is truncated, without the + 5.
blur_value_Truncates(self, field, x, z, i, threshold) ==
    LET cd == field[i]
    IN  IF cd <= threshold THEN cd
        ELSE WrapU16((cd + blur_term(self, field, x, z, i, cd, 0)
                         + blur_term(self, field, x, z, i, cd, 1)
                         + blur_term(self, field, x, z, i, cd, 2)
                         + blur_term(self, field, x, z, i, cd, 3)) \div 9)

\* Variant of blur_value: spans at or below the threshold are blurred too.
blur_value_NoThreshold(self, field, x, z, i, threshold) ==
    LET cd == field[i]
    IN  WrapU16((cd + blur_term(self, field, x, z, i, cd, 0)
                    + blur_term(self, field, x, z, i, cd, 1)
                    + blur_term(self, field, x, z, i, cd, 2)
                    + blur_term(self, field, x, z, i, cd, 3) + 5) \div 9)

\* The blurred value of span i of cell (x, z); field is the slice the blur
\* reads.
blur_value(self, field, x, z, i, threshold) ==
    LET cd == field[i]
    IN  IF cd <= threshold THEN cd
        ELSE WrapU16((cd + blur_term(self, field, x, z, i, cd, 0)
                         + blur_term(self, field, x, z, i, cd, 1)
                         + blur_term(self, field, x, z, i, cd, 2)
                         + blur_term(self, field, x, z, i, cd, 3) + 5) \div 9)

\* box_blur(1, ..) is the only call.
BlurThreshold == saturating_mul(1, 2)

\* ---- the heightfields build_distance_field is run on ----

\* One layer of w x h cells, every span connected to its neighbours in the
\* grid; areas gives the area of each span.
Flat(w, h, areas) ==
    [width |-> w, height |-> h,
     cells |-> [k \in 1..(w * h) |-> C(k - 1, 1)],
     spans |-> [k \in 1..(w * h) |->
                  LET x == (k - 1) % w
                      z == (k - 1) \div w
                  IN  S(0, IF x > 0 THEN 0 ELSE None,
                           IF z < h - 1 THEN 0 ELSE None,
                           IF x < w - 1 THEN 0 ELSE None,
                           IF z > 0 THEN 0 ELSE None)],
     areas |-> areas,
     dist |-> [k \in 1..(w * h) |-> 0],
     max_distance |-> 0]

\* Two layers of w x h cells, a floor and a storey above it, each connected
\* within itself only.
Stacked(w, h) ==
    [width |-> w, height |-> h,
     cells |-> [k \in 1..(w * h) |-> C(2 * (k - 1), 2)],
     spans |-> [i \in 1..(2 * w * h) |->
                  LET k == (i - 1) \div 2
                      l == (i - 1) % 2
                      x == k % w
                      z == k \div w
                  IN  S(10 * l, IF x > 0 THEN l ELSE None,
                                IF z < h - 1 THEN l ELSE None,
                                IF x < w - 1 THEN l ELSE None,
                                IF z > 0 THEN l ELSE None)],
     areas |-> [i \in 1..(2 * w * h) |-> 1 + ((i - 1) % 2)],
     dist |-> [i \in 1..(2 * w * h) |-> 0],
     max_distance |-> 0]

\* A cell without spans.
Hollow ==
    [width |-> 1, height |-> 1, cells |-> <<C(0, 0)>>, spans |-> <<>>,
     areas |-> <<>>, dist |-> <<>>, max_distance |-> 0]

\* A 5 x 5 floor at heights 7..9 with a low passage under a ledge in cells
\* (1,1) and (2,1): built with walkable_height 3 and walkable_climb 2, every
\* span has at most one neighbour within climb and clearance per direction
\* and every connection has its reverse.  From span 15 of cell (2,2) the
\* connections -x then -z lead onto the ledge (span 8), -z then -x into the
\* passage (span 7).
Overhang ==
    [width |-> 5, height |-> 5,
     cells |-> <<C(0, 1), C(1, 1), C(2, 1), C(3, 1), C(4, 1),
                 C(5, 1), C(6, 2), C(8, 2), C(10, 1), C(11, 1),
                 C(12, 1), C(13, 1), C(14, 1), C(15, 1), C(16, 1),
                 C(17, 1), C(18, 1), C(19, 1), C(20, 1), C(21, 1),
                 C(22, 1), C(23, 1), C(24, 1), C(25, 1), C(26, 1)>>,
     spans |-> <<S(8, None, 0, 0, None), S(8, 0, 1, 0, None), S(7, 0, 0, 0, None),
                 S(8, 0, 0, 0, None), S(7, 0, 0, None, None), S(8, None, 0, 1, 0),
                 S(5, None, None, 0, None), S(9, 0, 0, 1, 0), S(5, 0, 0, 0, 0),
                 S(11, 1, None, None, None), S(7, 0, 0, 0, 0), S(8, 0, 0, None, 0),
                 S(9, None, 0, 0, 0), S(7, 0, 0, 0, 1), S(7, 0, 0, 0, 0),
                 S(8, 0, 0, 0, 0), S(7, 0, 0, None, 0), S(8, None, 0, 0, 0),
                 S(9, 0, 0, 0, 0), S(8, 0, 0, 0, 0), S(8, 0, 0, 0, 0),
                 S(8, 0, 0, None, 0), S(9, None, None, 0, 0), S(8, 0, None, 0, 0),
                 S(8, 0, None, 0, 0), S(8, 0, None, 0, 0), S(8, 0, None, None, 0)>>,
     areas |-> [i \in 1..27 |-> 1],
     dist |-> [i \in 1..27 |-> 0],
     max_distance |-> 0]

\* A 7 x 7 floor at height 10 with two shelves in cells (2,3) and (2,4):
\* built with walkable_height 2 and walkable_climb 2, every span has at most
\* one neighbour within climb and clearance per direction and every
\* connection has its reverse.  Span 26 of cell (3,3) connects in direction 0
\* to span 24, the lower span of cell (2,3), which connects in direction 1 to
\* the boundary span 32; from span 26, direction 1 then 0 leads to span 33,
\* the upper span of cell (2,4).
Shelves ==
    [width |-> 7, height |-> 7,
     cells |-> <<C(0, 1), C(1, 1), C(2, 1), C(3, 1), C(4, 1), C(5, 1), C(6, 1),
                 C(7, 1), C(8, 1), C(9, 1), C(10, 1), C(11, 1), C(12, 1), C(13, 1),
                 C(14, 1), C(15, 1), C(16, 1), C(17, 1), C(18, 1), C(19, 1), C(20, 1),
                 C(21, 1), C(22, 1), C(23, 2), C(25, 1), C(26, 1), C(27, 1), C(28, 1),
                 C(29, 1), C(30, 1), C(31, 2), C(33, 1), C(34, 1), C(35, 1), C(36, 1),
                 C(37, 1), C(38, 1), C(39, 1), C(40, 1), C(41, 1), C(42, 1), C(43, 1),
                 C(44, 1), C(45, 1), C(46, 1), C(47, 1), C(48, 1), C(49, 1), C(50, 1)>>,
     spans |-> <<S(10, None, 0, 0, None), S(10, 0, 0, 0, None), S(10, 0, 0, 0, None),
                 S(10, 0, 0, 0, None), S(10, 0, 0, 0, None), S(10, 0, 0, 0, None),
                 S(10, 0, 0, None, None), S(10, None, 0, 0, 0), S(10, 0, 0, 0, 0),
                 S(10, 0, 0, 0, 0), S(10, 0, 0, 0, 0), S(10, 0, 0, 0, 0),
                 S(10, 0, 0, 0, 0), S(10, 0, 0, None, 0), S(10, None, 0, 0, 0),
                 S(10, 0, 0, 0, 0), S(10, 0, 0, 0, 0), S(10, 0, 0, 0, 0),
                 S(10, 0, 0, 0, 0), S(10, 0, 0, 0, 0), S(10, 0, 0, None, 0),
                 S(10, None, 0, 0, 0), S(10, 0, 0, 0, 0), S(8, 0, 0, 0, 0),
                 S(13, None, 1, None, None), S(10, 0, 0, 0, 0), S(10, 0, 0, 0, 0),
                 S(10, 0, 0, 0, 0), S(10, 0, 0, None, 0), S(10, None, 0, 0, 0),
                 S(10, 0, 0, 1, 0), S(7, None, None, None, 0), S(11, 0, 0, 0, 1),
                 S(10, 1, 0, 0, 0), S(10, 0, 0, 0, 0), S(10, 0, 0, 0, 0),
                 S(10, 0, 0, None, 0), S(10, None, 0, 0, 0), S(10, 0, 0, 0, 0),
                 S(10, 0, 0, 0, 1), S(10, 0, 0, 0, 0), S(10, 0, 0, 0, 0),
                 S(10, 0, 0, 0, 0), S(10, 0, 0, None, 0), S(10, None, None, 0, 0),
                 S(10, 0, None, 0, 0), S(10, 0, None, 0, 0), S(10, 0, None, 0, 0),
                 S(10, 0, None, 0, 0), S(10, 0, None, 0, 0), S(10, 0, None, None, 0)>>,
     areas |-> [i \in 1..51 |-> 1],
     dist |-> [i \in 1..51 |-> 0],
     max_distance |-> 0]

\* Area 2 on an L of cells inside a 6 x 5 floor of area 1.
LShape == [k \in 1..30 |-> IF k \in {8, 9, 10, 14, 20, 26} THEN 2 ELSE 1]

\* Area 0 (NULL_AREA) on the 3 x 3 cells in the middle of a 5 x 5 floor of
\* area 1, as mark_convex_poly_area leaves it for a volume of that area.
Pit == [k \in 1..25 |-> IF k \in {7, 8, 9, 12, 13, 14, 17, 18, 19} THEN 0 ELSE 1]

DistHeightfields ==
    {Hollow,
     Flat(1, 1, <<1>>),
     Flat(2, 3, <<1, 1, 1, 2, 1, 1>>),
     Flat(5, 5, [k \in 1..25 |-> 1]),
     Flat(6, 5, [k \in 1..30 |-> 1]),
     Flat(6, 5, LShape),
     Flat(5, 5, Pit),
     Flat(7, 7, [k \in 1..49 |-> 1]),
     Stacked(3, 3),
     Overhang,
     Shelves}

\* ---- the steps of build_distance_field ----

\* The worker threads of the parallel iterator, and the first cell of the
\* contiguous part of the n cells that rayon hands to worker w; part w ends
\* where part w + 1 starts.
DistWorkers == 1..NumWorkers
PartStart(w, n) == ((w - 1) * n) \div NumWorkers
PartLen(w, n) == PartStart(w + 1, n) - PartStart(w, n)

\* The parts of all workers in worker order: what collect() returns.
RECURSIVE Gather(_, _)
Gather(parts, w) ==
    IF w > NumWorkers THEN <<>> ELSE parts[w] \o Gather(parts, w + 1)

\* The caller passes the same heightfield to the next of the two builds:
\* build_distance_field starts, and calculate_distance_field allocates
\* distance_field.
BuildDistanceField(b) ==
    /\ \/ build = "none" /\ pc = "idle" /\ b = "seq"
       \/ build = "seq" /\ pc = "done" /\ b = "par"
    /\ build' = b
    /\ chf' = prev
    /\ distance_field' = [i \in DOMAIN prev.spans |-> U16_MAX]
    /\ blurred' = <<>>
    /\ pc' = "mark"
    /\ cursor' = 0
    /\ progress' = [w \in DistWorkers |-> 0]
    /\ partial' = [w \in DistWorkers |-> <<>>]
    /\ UNCHANGED <<config, trimesh, failAt, tiled, call, tileVars, gridVars,
                   prev, volume, nmarks, area_volumes, unmarked, built>>

\* Sequential boundary marking: the body of the loops for the next cell.
SeqMarkCell ==
    /\ build = "seq"
    /\ pc = "mark"
    /\ cursor < CellCount(chf)
    /\ LET x == CellX(chf, cursor)
           z == CellZ(chf, cursor)
           range == CellRange(chf, x, z)
           marks == {range[j] : j \in {j \in DOMAIN range :
                                          connection_count(chf, x, z, range[j]) < 4}}
       IN  distance_field' = [i \in DOMAIN distance_field |->
                                 IF i \in marks THEN 0 ELSE distance_field[i]]
    /\ cursor' = IF cursor + 1 = CellCount(chf) THEN 0 ELSE cursor + 1
    /\ pc' = IF cursor + 1 = CellCount(chf) THEN "pass1" ELSE pc
    /\ UNCHANGED <<config, trimesh, failAt, tiled, call, tileVars, gridVars,
                   markVars, build, blurred, progress, partial, built>>

\* Parallel boundary marking: worker w runs the closure on the next cell of
\* its part.
ParMarkTask(w) ==
    /\ build = "par"
    /\ pc = "mark"
    /\ progress[w] < PartLen(w, CellCount(chf))
    /\ LET k == PartStart(w, CellCount(chf)) + progress[w]
           x == CellX(chf, k)
           z == CellZ(chf, k)
           Boundary(i) == connection_count(chf, x, z, i) < 4
       IN  partial' = [partial EXCEPT
                          ![w] = @ \o SelectSeq(CellRange(chf, x, z), Boundary)]
    /\ progress' = [progress EXCEPT ![w] = @ + 1]
    /\ UNCHANGED <<config, trimesh, failAt, tiled, call, tileVars, gridVars,
                   markVars, build, pc, cursor, distance_field, blurred, built>>

\* All cells are done: collect() and the loop that writes the zeros.
ParMarkWrite ==
    /\ build = "par"
    /\ pc = "mark"
    /\ \A w \in DistWorkers : progress[w] = PartLen(w, CellCount(chf))
    /\ LET boundary_marks == Gather(partial, 1)
       IN  distance_field' =
               [i \in DOMAIN distance_field |->
                   IF \E k \in DOMAIN boundary_marks : boundary_marks[k] = i
                   THEN 0 ELSE distance_field[i]]
    /\ pc' = "pass1"
    /\ progress' = [w \in DistWorkers |-> 0]
    /\ partial' = [w \in DistWorkers |-> <<>>]
    /\ UNCHANGED <<config, trimesh, failAt, tiled, call, tileVars, gridVars,
                   markVars, build, cursor, blurred, built>>

\* Pass 1 on the next cell, z and x ascending.
Pass1Cell ==
    /\ pc = "pass1"
    /\ cursor < CellCount(chf)
    /\ distance_field' = pass_cell(chf, distance_field, CellX(chf, cursor),
                                   CellZ(chf, cursor), 0, 3, 3, 2)
    /\ cursor' = IF cursor + 1 = CellCount(chf) THEN 0 ELSE cursor + 1
    /\ pc' = IF cursor + 1 = CellCount(chf) THEN "pass2" ELSE pc
    /\ UNCHANGED <<config, trimesh, failAt, tiled, call, tileVars, gridVars,
                   markVars, build, blurred, progress, partial, built>>

\* Variant of Pass2Cell: the pass walks the cells without relaxing any span.
Pass2Cell_NoRelax ==
    /\ pc = "pass2"
    /\ cursor < CellCount(chf)
    /\ cursor' = IF cursor + 1 = CellCount(chf) THEN 0 ELSE cursor + 1
    /\ pc' = IF cursor + 1 = CellCount(chf) THEN "max" ELSE pc
    /\ UNCHANGED <<config, trimesh, failAt, tiled, call, tileVars, gridVars,
                   markVars, build, distance_field, blurred, progress, partial,
                   built>>

\* Pass 2 on the next cell, z and x descending.
Pass2Cell ==
    /\ pc = "pass2"
    /\ cursor < CellCount(chf)
    /\ LET k == CellCount(chf) - 1 - cursor
       IN  distance_field' = pass_cell(chf, distance_field, CellX(chf, k),
                                       CellZ(chf, k), 2, 1, 1, 0)
    /\ cursor' = IF cursor + 1 = CellCount(chf) THEN 0 ELSE cursor + 1
    /\ pc' = IF cursor + 1 = CellCount(chf) THEN "max" ELSE pc
    /\ UNCHANGED <<config, trimesh, failAt, tiled, call, tileVars, gridVars,
                   markVars, build, blurred, progress, partial, built>>

\* build_distance_field stores max_distance and box_blur allocates result.
MaxDistance ==
    /\ pc = "max"
    /\ chf' = [chf EXCEPT !.max_distance = max_or_default(distance_field)]
    /\ blurred' = [i \in DOMAIN distance_field |-> 0]
    /\ pc' = "blur"
    /\ UNCHANGED <<config, trimesh, failAt, tiled, call, tileVars, gridVars,
                   prev, volume, nmarks, area_volumes, unmarked, build, cursor, distance_field, progress,
                   partial, built>>

\* Variant of SeqBlurCell: the blur works in place, reading for every span
\* already blurred the value written to result.
SeqBlurCell_InPlace ==
    /\ build = "seq"
    /\ pc = "blur"
    /\ cursor < CellCount(chf)
    /\ LET x == CellX(chf, cursor)
           z == CellZ(chf, cursor)
           range == CellRange(chf, x, z)
           own == {range[j] : j \in DOMAIN range}
           field == [i \in DOMAIN distance_field |->
                        IF i <= cell_at(chf, x, z).index
                        THEN blurred[i] ELSE distance_field[i]]
       IN  blurred' = [i \in DOMAIN blurred |->
                          IF i \in own
                          THEN blur_value(chf, field, x, z, i, BlurThreshold)
                          ELSE blurred[i]]
    /\ cursor' = IF cursor + 1 = CellCount(chf) THEN 0 ELSE cursor + 1
    /\ pc' = IF cursor + 1 = CellCount(chf) THEN "store" ELSE pc
    /\ UNCHANGED <<config, trimesh, failAt, tiled, call, tileVars, gridVars,
                   markVars, build, distance_field, progress, partial, built>>

\* Sequential blur: the body of the loops for the next cell.
SeqBlurCell ==
    /\ build = "seq"
    /\ pc = "blur"
    /\ cursor < CellCount(chf)
    /\ LET x == CellX(chf, cursor)
           z == CellZ(chf, cursor)
           range == CellRange(chf, x, z)
           own == {range[j] : j \in DOMAIN range}
       IN  blurred' = [i \in DOMAIN blurred |->
                          IF i \in own
                          THEN blur_value(chf, distance_field, x, z, i, BlurThreshold)
                          ELSE blurred[i]]
    /\ cursor' = IF cursor + 1 = CellCount(chf) THEN 0 ELSE cursor + 1
    /\ pc' = IF cursor + 1 = CellCount(chf) THEN "store" ELSE pc
    /\ UNCHANGED <<config, trimesh, failAt, tiled, call, tileVars, gridVars,
                   markVars, build, distance_field, progress, partial, built>>

\* Parallel blur: worker w runs the closure on the next cell of its part.
ParBlurTask(w) ==
    /\ build = "par"
    /\ pc = "blur"
    /\ progress[w] < PartLen(w, CellCount(chf))
    /\ LET k == PartStart(w, CellCount(chf)) + progress[w]
           x == CellX(chf, k)
           z == CellZ(chf, k)
           range == CellRange(chf, x, z)
       IN  partial' = [partial EXCEPT
                          ![w] = @ \o [j \in DOMAIN range |->
                                         <<range[j],
                                           blur_value(chf, distance_field, x, z,
                                                      range[j], BlurThreshold)>>]]
    /\ progress' = [progress EXCEPT ![w] = @ + 1]
    /\ UNCHANGED <<config, trimesh, failAt, tiled, call, tileVars, gridVars,
                   markVars, build, pc, cursor, distance_field, blurred, built>>

\* `for (i, value) in cell_results { result[i] = value; }` from item k on.
RECURSIVE WriteResults(_, _, _)
WriteResults(res, cell_results, k) ==
    IF k > Len(cell_results) THEN res
    ELSE WriteResults([res EXCEPT ![cell_results[k][1]] = cell_results[k][2]],
                      cell_results, k + 1)

\* All cells are done: collect() and the loop that writes the results.
ParBlurWrite ==
    /\ build = "par"
    /\ pc = "blur"
    /\ \A w \in DistWorkers : progress[w] = PartLen(w, CellCount(chf))
    /\ blurred' = WriteResults(blurred, Gather(partial, 1), 1)
    /\ pc' = "store"
    /\ UNCHANGED <<config, trimesh, failAt, tiled, call, tileVars, gridVars,
                   markVars, build, cursor, distance_field, progress, partial, built>>

\* Variant of StoreDist: max_distance is taken again, from the blurred field.
StoreDist_MaxOfBlurred ==
    /\ pc = "store"
    /\ chf' = [chf EXCEPT !.dist = blurred, !.max_distance = max_or_default(blurred)]
    /\ built' = Append(built, [chf EXCEPT !.dist = blurred,
                                          !.max_distance = max_or_default(blurred)])
    /\ pc' = "done"
    /\ UNCHANGED <<config, trimesh, failAt, tiled, call, tileVars, gridVars,
                   prev, volume, nmarks, area_volumes, unmarked, build, cursor, distance_field, blurred,
                   progress, partial>>

\* self.dist = distance_field; build_distance_field returns.
StoreDist ==
    /\ pc = "store"
    /\ chf' = [chf EXCEPT !.dist = blurred]
    /\ built' = Append(built, [chf EXCEPT !.dist = blurred])
    /\ pc' = "done"
    /\ UNCHANGED <<config, trimesh, failAt, tiled, call, tileVars, gridVars,
                   prev, volume, nmarks, area_volumes, unmarked, build, cursor, distance_field, blurred,
                   progress, partial>>

InitDist ==
    /\ NoTiling
    /\ GridIdle
    /\ chf \in DistHeightfields
    /\ prev = chf
    /\ volume = <<>>
    /\ nmarks = 0
    /\ area_volumes = <<>>
    /\ unmarked = <<>>
    /\ DistIdle

NextDist ==
    \/ \E b \in {"seq", "par"} : BuildDistanceField(b)
    \/ SeqMarkCell
    \/ \E w \in DistWorkers : ParMarkTask(w)
    \/ ParMarkWrite
    \/ Pass1Cell
    \/ Pass2Cell
    \/ MaxDistance
    \/ SeqBlurCell
    \/ \E w \in DistWorkers : ParBlurTask(w)
    \/ ParBlurWrite
    \/ StoreDist

DistSpec == InitDist /\ [][NextDist]_vars

\* The cell (in loop order) that holds span i, and its coordinates.
SpanCell(self, i) ==
    CHOOSE k \in 0..(CellCount(self) - 1) :
        /\ self.cells[k + 1].index < i
        /\ i <= self.cells[k + 1].index + self.cells[k + 1].count
SpanX(self, i) == CellX(self, SpanCell(self, i))
SpanZ(self, i) == CellZ(self, SpanCell(self, i))

\* The span indices that the items gathered so far by the parallel tasks carry.
Produced(items) ==
    [k \in DOMAIN items |-> IF pc = "blur" THEN items[k][1] ELSE items[k]]

\* Both builds have returned.
BothBuilt == build = "par" /\ pc = "done"

\* C19: the build without and the build with the "parallel" feature leave the
\* same dist and the same max_distance on the same heightfield, whatever the
\* order in which the workers run their cells; no span index is produced by
\* two parallel tasks, the blur tasks produce every span index once, and in
\* both builds the result of box_blur is the blur of the pre-blur
\* distance_field alone.
C19_ParallelEqualsSequential ==
    /\ BothBuilt =>
          /\ built[1].dist = built[2].dist
          /\ built[1].max_distance = built[2].max_distance
    /\ (build = "par" /\ pc \in {"mark", "blur"}) =>
          LET items == Produced(Gather(partial, 1))
          IN  /\ \A j, k \in DOMAIN items : items[j] = items[k] => j = k
              /\ (pc = "blur" /\ \A w \in DistWorkers :
                                    progress[w] = PartLen(w, CellCount(chf)))
                    => {items[k] : k \in DOMAIN items} = DOMAIN chf.spans
    /\ pc = "store" =>
          \A i \in DOMAIN blurred :
              blurred[i] = blur_value(chf, distance_field, SpanX(chf, i),
                                      SpanZ(chf, i), i, BlurThreshold)

\* Both builds returned on a heightfield where the blur changed a value.
C19_Witness ==
    /\ BothBuilt
    /\ chf.max_distance >= 4
    /\ \E i \in DOMAIN chf.dist :
          /\ distance_field[i] > BlurThreshold
          /\ chf.dist[i] # distance_field[i]

\* The spans marked 0: those with fewer than four connections to their own
\* area.
BoundarySpans(self) ==
    {i \in DOMAIN self.spans :
        connection_count(self, SpanX(self, i), SpanZ(self, i), i) < 4}

\* The span one connection away from span i in direction dir, as a set.
Step(self, i, dir) ==
    IF con(self, i, dir) = None THEN {}
    ELSE {Neighbour(self, SpanX(self, i), SpanZ(self, i), dir, con(self, i, dir))}

\* The pairs of perpendicular directions.
Perpendicular == {p \in (0..3) \X (0..3) : (p[1] + p[2]) % 2 = 1}

\* The span that connection dir and then connection dir2 lead to from span
\* i, as a set.
TwoSteps(self, i, dir, dir2) ==
    UNION {Step(self, a, dir2) : a \in Step(self, i, dir)}

\* The spans an axis step, and a diagonal step (an axis connection followed
\* by a perpendicular connection), lead to from span i.
AxisSteps(self, i) == UNION {Step(self, i, dir) : dir \in 0..3}
DiagonalSteps(self, i) ==
    UNION {TwoSteps(self, i, p[1], p[2]) : p \in Perpendicular}

Lowest(costs) == CHOOSE m \in costs : \A v \in costs : m <= v

\* The cheapest path costs, by relaxing every step until nothing changes;
\* U16_MAX stands for "no path".
RECURSIVE Settle(_, _)
Settle(self, d) ==
    LET nd == [i \in DOMAIN d |->
                 Lowest({d[i]} \cup {d[a] + 2 : a \in AxisSteps(self, i)}
                               \cup {d[b] + 3 : b \in DiagonalSteps(self, i)})]
    IN  IF nd = d THEN d ELSE Settle(self, nd)

\* Per span, the cost of the cheapest path to a span marked 0.
Cheapest(self) ==
    Settle(self, [i \in DOMAIN self.spans |->
                     IF i \in BoundarySpans(self) THEN 0 ELSE U16_MAX])

\* Every diagonal step reaches the same span whichever of its two
\* connections is taken first.
DiagonalsCommute(self) ==
    \A i \in DOMAIN self.spans : \A p \in Perpendicular :
        TwoSteps(self, i, p[1], p[2]) # {} =>
            TwoSteps(self, i, p[2], p[1]) = TwoSteps(self, i, p[1], p[2])

\* Both passes of calculate_distance_field are over and the blur has not
\* started.
PassesDone == pc = "max"

\* C20 as stated: after the two passes every span's value is the cost of the
\* cheapest path over span connections to a span marked 0, 2 per axis step
\* and 3 per diagonal step, on every connection topology.
C20_TwoPassesGiveCheapestPath ==
    PassesDone =>
        \A i \in DOMAIN distance_field : distance_field[i] = Cheapest(chf)[i]

\* C20 amended: after the two passes a span's value is 0 exactly when the
\* span is a boundary span and is never below the cost of its cheapest path
\* to a span marked 0; it equals that cost on the heightfields whose diagonal
\* steps reach the same span in either order of their two connections (every
\* single-layer heightfield is one).
C20_CheapestPathWhereDiagonalsCommute ==
    PassesDone =>
        LET cheapest == Cheapest(chf)
        IN  \A i \in DOMAIN distance_field :
                /\ distance_field[i] = 0 <=> i \in BoundarySpans(chf)
                /\ distance_field[i] >= cheapest[i]
                /\ DiagonalsCommute(chf) => distance_field[i] = cheapest[i]

\* The passes are over on a heightfield whose diagonals commute and that has
\* a span two steps away from every boundary span.
C20_Witness ==
    /\ PassesDone
    /\ DiagonalsCommute(chf)
    /\ \E i \in DOMAIN distance_field : distance_field[i] >= 4

\* The passes are over on a heightfield with a diagonal that depends on the
\* order of its connections.
NonCommutingDone ==
    /\ PassesDone
    /\ ~DiagonalsCommute(chf)

\* The boundary marking of calculate_distance_field is over and pass 1 has not
\* started.
MarkingDone == pc = "pass1" /\ cursor = 0

\* No cell has been through the boundary marking yet.
MarkingNotStarted ==
    /\ pc = "mark"
    /\ cursor = 0
    /\ build = "par" => \A w \in DistWorkers : progress[w] = 0

\* The number of directions in which span i has a connection to a walkable
\* span of its own area.
WalkableSameAreaNeighbours(self, i) ==
    Cardinality({dir \in 0..3 :
        \E a \in Step(self, i, dir) :
            /\ is_walkable(self.areas[a])
            /\ self.areas[a] = self.areas[i]})

\* C21: every span starts at u16::MAX, and the boundary marking sets a span
\* to 0 exactly when fewer than 4 of its directions hold a connection to a
\* walkable span of its own area, leaving the others at u16::MAX; a span that
\* is not walkable is therefore always marked 0.
C21_BoundaryIffFewerThanFourWalkableNeighbours ==
    /\ MarkingNotStarted =>
          \A i \in DOMAIN distance_field : distance_field[i] = U16_MAX
    /\ MarkingDone =>
          \A i \in DOMAIN distance_field :
              /\ distance_field[i] \in {0, U16_MAX}
              /\ distance_field[i] = 0 <=> WalkableSameAreaNeighbours(chf, i) < 4
              /\ ~is_walkable(chf.areas[i]) => distance_field[i] = 0

\* A step of pass 1, and a step of pass 2: such a step visits one cell.
Pass1Step == pc = "pass1" /\ <<pc, cursor>>' # <<pc, cursor>>
Pass2Step == pc = "pass2" /\ <<pc, cursor>>' # <<pc, cursor>>

\* The cell a pass visits as its k-th when it goes through the cells with z
\* and then x increasing, and when it goes through them with z and then x
\* decreasing; k counts from 0.
ForwardCell(self, k) ==
    CHOOSE c \in (0..(self.width - 1)) \X (0..(self.height - 1)) :
        Cardinality({e \in (0..(self.width - 1)) \X (0..(self.height - 1)) :
                        e[2] < c[2] \/ (e[2] = c[2] /\ e[1] < c[1])}) = k
BackwardCell(self, k) ==
    CHOOSE c \in (0..(self.width - 1)) \X (0..(self.height - 1)) :
        Cardinality({e \in (0..(self.width - 1)) \X (0..(self.height - 1)) :
                        e[2] > c[2] \/ (e[2] = c[2] /\ e[1] > c[1])}) = k

\* The minimum of span i's value, the values + 2 of its neighbours in
\* directions d1 and d2, and the values + 3 of the diagonals d1 then e1 and
\* d2 then e2.
Lowered(self, df, i, d1, e1, d2, e2) ==
    Lowest({df[i]}
           \cup {df[a] + 2 : a \in Step(self, i, d1) \cup Step(self, i, d2)}
           \cup {df[b] + 3 : b \in TwoSteps(self, i, d1, e1)
                                   \cup TwoSteps(self, i, d2, e2)})

\* What a step that visits cell c leaves in distance_field, given the
\* directions it relaxes against.
VisitLowers(c, d1, e1, d2, e2) ==
    \A i \in DOMAIN distance_field :
        distance_field'[i] =
            IF i \in SpansOf(chf, c[1], c[2])
            THEN Lowered(chf, distance_field, i, d1, e1, d2, e2)
            ELSE distance_field[i]

\* C22: the forward pass visits the cells with z increasing then x increasing
\* and lowers each span of the cell to the minimum of its value, value + 2 of
\* its direction-0 and direction-3 neighbours and value + 3 of the diagonals
\* 0 then 3 and 3 then 2; the backward pass visits them with z decreasing
\* then x decreasing and uses directions 2 and 1 and the diagonals 2 then 1
\* and 1 then 0.  No step of a pass raises a value, and a span at 0 stays 0.
C22_PassesRelaxInOrder ==
    [][/\ Pass1Step => VisitLowers(ForwardCell(chf, cursor), 0, 3, 3, 2)
       /\ Pass2Step => VisitLowers(BackwardCell(chf, cursor), 2, 1, 1, 0)
       /\ (Pass1Step \/ Pass2Step) =>
             \A i \in DOMAIN distance_field :
                 /\ distance_field'[i] <= distance_field[i]
                 /\ distance_field[i] = 0 => distance_field'[i] = 0]_vars

\* Pass 2 is under way on a field where pass 1 used a diagonal (a 3) and two
\* axis steps (a 4).
C22_Witness ==
    /\ pc = "pass2"
    /\ cursor > 0
    /\ \E i \in DOMAIN distance_field : distance_field[i] = 3
    /\ \E i \in DOMAIN distance_field : distance_field[i] = 4

\* The spans whose values a pass reads for span i.
Pass1Reads(self, i) ==
    Step(self, i, 0) \cup TwoSteps(self, i, 0, 3)
        \cup Step(self, i, 3) \cup TwoSteps(self, i, 3, 2)
Pass2Reads(self, i) ==
    Step(self, i, 2) \cup TwoSteps(self, i, 2, 1)
        \cup Step(self, i, 1) \cup TwoSteps(self, i, 1, 0)

\* The connections of the heightfield address existing spans of the adjacent
\* column inside the grid, and 2 * width + 3 fits u16.
WellConnected(self) ==
    /\ 2 * self.width + 3 <= U16_MAX
    /\ \A i \in DOMAIN self.spans : \A dir \in 0..3 :
          con(self, i, dir) # None =>
              LET x == SpanX(self, i) + dir_offset_x(dir)
                  z == SpanZ(self, i) + dir_offset_z(dir)
              IN  /\ x \in 0..(self.width - 1)
                  /\ z \in 0..(self.height - 1)
                  /\ con(self, i, dir) < cell_at(self, x, z).count

\* The values the step of a pass reads for the cell it visits.
ReadValues ==
    LET c == IF pc = "pass1" THEN ForwardCell(chf, cursor)
             ELSE BackwardCell(chf, cursor)
    IN  {distance_field[n] :
            n \in UNION {IF pc = "pass1" THEN Pass1Reads(chf, i)
                         ELSE Pass2Reads(chf, i) : i \in SpansOf(chf, c[1], c[2])}}

\* C29: on a heightfield whose connections address existing spans of the
\* adjacent in-grid column and with 2 * width + 3 <= 65535, no value a pass
\* reads is u16::MAX and every one of them is at most 2 * width, so value + 2
\* and value + 3 stay within u16; after both passes no span holds u16::MAX.
C29_NoOverflowInPasses ==
    [][(Pass1Step \/ Pass2Step) =>
          (WellConnected(chf) =>
              /\ \A v \in ReadValues : v # U16_MAX /\ v <= 2 * chf.width
              /\ pc' = "max" =>
                    \A i \in DOMAIN distance_field : distance_field'[i] # U16_MAX)]_vars

\* The passes are over on a heightfield with spans that were not boundary
\* spans, so that values were read and added to.
C29_Witness ==
    /\ PassesDone
    /\ WellConnected(chf)
    /\ \E i \in DOMAIN distance_field : distance_field[i] >= 4

\* The value of the one span of set n in field, or absent when n is empty.
ValueOr(field, n, absent) ==
    IF n = {} THEN absent ELSE field[CHOOSE a \in n : TRUE]

\* What direction dir adds to the sum S of the blur of span i, d being the
\* span's own value: the axis neighbour and the diagonal reached as dir then
\* (dir + 1) mod 4, an absent diagonal counting d, an absent axis neighbour
\* 2 * d.
TapPair(self, field, i, d, dir) ==
    IF Step(self, i, dir) = {} THEN 2 * d
    ELSE ValueOr(field, Step(self, i, dir), d)
             + ValueOr(field, TwoSteps(self, i, dir, (dir + 1) % 4), d)

\* The sum S of the nine terms of span i.
NineTapSum(self, field, i) ==
    field[i] + TapPair(self, field, i, field[i], 0)
             + TapPair(self, field, i, field[i], 1)
             + TapPair(self, field, i, field[i], 2)
             + TapPair(self, field, i, field[i], 3)

\* box_blur has filled result and build_distance_field has not stored it yet.
BlurDone == pc = "store"

\* C23: box_blur with threshold 1 leaves a span with d <= 2 at d and gives a
\* span with d > 2 the value (S + 5) / 9 in integer division, S being the sum
\* of the span's d, its 4 axis neighbours and its 4 diagonals (dir then
\* (dir + 1) mod 4), with d for an absent diagonal and 2 * d for an absent
\* axis neighbour.
C23_BlurIsNineTapAverage ==
    BlurDone =>
        \A i \in DOMAIN blurred :
            blurred[i] = IF distance_field[i] <= 2 THEN distance_field[i]
                         ELSE (NineTapSum(chf, distance_field, i) + 5) \div 9

\* The blur is over on a field where it rounded a quotient up: some span's S
\* leaves a remainder of at least 4 when divided by 9.
C23_Witness ==
    /\ BlurDone
    /\ \E i \in DOMAIN blurred :
          /\ distance_field[i] > 2
          /\ NineTapSum(chf, distance_field, i) % 9 >= 4

\* build_distance_field has returned.
Built == pc = "done"

\* C24: build_distance_field sets max_distance to the maximum of the values
\* the two passes left (0 without spans) and keeps it, and stores the blurred
\* field, one value per span, in dist.
C24_MaxDistanceOfUnblurredField ==
    /\ pc \in {"blur", "store", "done"} =>
          /\ \A i \in DOMAIN distance_field : distance_field[i] <= chf.max_distance
          /\ IF distance_field = <<>> THEN chf.max_distance = 0
             ELSE \E i \in DOMAIN distance_field :
                      distance_field[i] = chf.max_distance
    /\ Built =>
          /\ chf.dist = blurred
          /\ Len(chf.dist) = Len(chf.spans)

\* build_distance_field returned with max_distance above every value of dist.
C24_Witness ==
    /\ Built
    /\ chf.dist # <<>>
    /\ \A i \in DOMAIN chf.dist : chf.dist[i] < chf.max_distance

\* C28: after build_distance_field no value of dist is above max_distance,
\* and a span the passes left at 0 has 0 in dist.
C28_BlurWithinMaxAndKeepsZeros ==
    Built =>
        \A i \in DOMAIN chf.dist :
            /\ chf.dist[i] <= chf.max_distance
            /\ distance_field[i] = 0 => chf.dist[i] = 0

\* build_distance_field returned on a heightfield where the blur left values
\* of 3 and more beside the zeros of the boundary.
C28_Witness ==
    /\ Built
    /\ \E i \in DOMAIN chf.dist : chf.dist[i] = 0
    /\ \E i \in DOMAIN chf.dist : chf.dist[i] >= 3 /\ chf.dist[i] # distance_field[i]

\* Every connection has its reverse: the span it leads to connects back in
\* the opposite direction.
SymmetricConnections(self) ==
    \A i \in DOMAIN self.spans : \A dir \in 0..3 :
        \A n \in Step(self, i, dir) : Step(self, n, (dir + 2) % 4) = {i}

\* The values on the two ends of every connection differ by at most 2.
AxisLipschitz(self, df) ==
    \A i \in DOMAIN df : \A n \in AxisSteps(self, i) :
        df[i] <= df[n] + 2 /\ df[n] <= df[i] + 2

\* C30 as stated: after the two passes, on a heightfield with symmetric
\* connections, the values of any two connected spans differ by at most 2.
C30_ConnectedSpansWithinTwo ==
    (PassesDone /\ SymmetricConnections(chf)) => AxisLipschitz(chf, distance_field)

\* C30 amended: after the two passes, on a heightfield with symmetric
\* connections whose diagonal steps reach the same span in either order of
\* their two connections, the values of any two connected spans differ by at
\* most 2.
C30_WithinTwoWhereDiagonalsCommute ==
    (PassesDone /\ SymmetricConnections(chf) /\ DiagonalsCommute(chf))
        => AxisLipschitz(chf, distance_field)

\* The passes are over on a symmetric heightfield with commuting diagonals
\* and values up to 6, connected spans two apart among them.
C30_Witness ==
    /\ PassesDone
    /\ SymmetricConnections(chf)
    /\ DiagonalsCommute(chf)
    /\ \E i \in DOMAIN distance_field : \E n \in AxisSteps(chf, i) :
          distance_field[i] = 6 /\ distance_field[n] = 4

\* A generate_tiles_sequential call is under way.
SequentialCall == call \in {"seq1", "seq2"} /\ running

\* generate_tile has been called for tile i (the i-th coordinate of
\* tile_coords), and has returned Ok for it.
Started(i) == stage[i] # 0
ReturnedOk(i) == stage[i] = Done /\ result[i].ok

\* C25: generate_tiles_sequential starts the tiles one at a time in
\* tile_coords order: a tile is started only when every tile before it has
\* returned Ok, so once a tile has failed no later tile is ever started.
C25_SequentialStopsAtFirstFailure ==
    SequentialCall =>
        \A i \in Tiles :
            /\ Started(i) => \A j \in Tiles : j < i => ReturnedOk(j)
            /\ (stage[i] = Done /\ ~result[i].ok) =>
                   \A j \in Tiles : j > i => ~Started(j) /\ ran[j] = <<>>

\* A sequential call has seen its second tile fail after the first returned
\* Ok, and has a tile it never started.
C25_Witness ==
    /\ SequentialCall
    /\ saved_error # NoError
    /\ next = 1
    /\ \E i \in Tiles : ~Started(i)

\* The cells of the grid.
GridCells(self) == (0..(self.width - 1)) \X (0..(self.height - 1))

\* The heightfield's extent on X and Z, in the units of CellCentre.
GridMinX(self) == self.aabb_min.x
GridMaxX(self) == self.aabb_min.x + self.width * One
GridMinZ(self) == self.aabb_min.z
GridMaxZ(self) == self.aabb_min.z + self.height * One

\* Some vertex of the volume lies outside the heightfield's extent, and all
\* of them lie beyond the same side of it.
ReachesOutside(self, cv) ==
    \E i \in DOMAIN cv.vertices :
        \/ ToX(cv.vertices[i].x) < GridMinX(self)
        \/ ToX(cv.vertices[i].x) > GridMaxX(self)
        \/ ToX(cv.vertices[i].y) < GridMinZ(self)
        \/ ToX(cv.vertices[i].y) > GridMaxZ(self)
WhollyOutside(self, cv) ==
    /\ cv.vertices # <<>>
    /\ \/ \A i \in DOMAIN cv.vertices : ToX(cv.vertices[i].x) < GridMinX(self)
       \/ \A i \in DOMAIN cv.vertices : ToX(cv.vertices[i].x) > GridMaxX(self)
       \/ \A i \in DOMAIN cv.vertices : ToX(cv.vertices[i].y) < GridMinZ(self)
       \/ \A i \in DOMAIN cv.vertices : ToX(cv.vertices[i].y) > GridMaxZ(self)

\* The cells whose entry of self.cells the call reads (line 71).
IndexedCells(self, cv) ==
    IF cv.vertices = <<>> THEN {}
    ELSE LET raw == RawFootprint(self, cv)
         IN  IF \/ raw.max.x < 0 \/ raw.min.x >= self.width
                \/ raw.max.z < 0 \/ raw.min.z >= self.height
             THEN {}
             ELSE {c \in Footprint(self, raw) :
                      point_in_poly_fast(CellCentre(self, c[1], c[2]).x,
                                         CellCentre(self, c[1], c[2]).y,
                                         cv.vertices)}

\* C27: mark_convex_poly_area changes nothing of the heightfield but entries
\* of areas (spans, cells, dist, max_distance, width, height and the AABB
\* stay, and areas keeps its length); whatever part of the volume lies
\* outside the grid, only cells of the grid are indexed, and a volume wholly
\* outside the grid changes no area.
C27_MarkChangesOnlyAreas ==
    Marked =>
        /\ [chf EXCEPT !.areas = prev.areas] = prev
        /\ DOMAIN chf.areas = DOMAIN prev.areas
        /\ IndexedCells(prev, volume) \subseteq GridCells(prev)
        /\ WhollyOutside(prev, volume) => chf.areas = prev.areas

\* A volume that reaches beyond the grid has changed the area of a span.
C27_Witness ==
    /\ Marked
    /\ ReachesOutside(prev, volume)
    /\ chf.areas # prev.areas

\* A volume wholly outside the grid, too close to it for the early return,
\* has been applied.
C27_OutsideScanned ==
    /\ Marked
    /\ WhollyOutside(prev, volume)
    /\ LET raw == RawFootprint(prev, volume)
       IN  ~(\/ raw.max.x < 0 \/ raw.min.x >= prev.width
             \/ raw.max.z < 0 \/ raw.min.z >= prev.height)

\* Volume k of the sequence covers span i: the centre of the span's cell
\* passes the crossing test and the span's floor is in the volume's y range.
Covers(k, i) ==
    \E x \in 0..(unmarked.width - 1), z \in 0..(unmarked.height - 1) :
        /\ i \in SpansOf(unmarked, x, z)
        /\ CentreInside(unmarked, area_volumes[k], x, z)
        /\ unmarked.spans[i].y \in YVoxels(unmarked, area_volumes[k])

\* The volumes applied so far that cover span i.
Covering(i) == {k \in 1..nmarks : Covers(k, i)}

\* The covering volumes applied so far whose area is not walkable.
Removing(i) == {k \in Covering(i) : ~is_walkable(area_volumes[k].area)}

First(ks) == CHOOSE k \in ks : \A j \in ks : k <= j
Last(ks) == CHOOSE k \in ks : \A j \in ks : k >= j

\* C26: after the first nmarks volumes of a sequence have been applied in
\* order, a span that was walkable at the start and is covered by one of
\* them has the area of the last covering volume, unless a covering volume
\* has an area that is not walkable, and then it has the area of the first
\* such volume; a span that was not walkable before a call is not walkable
\* after it; a span covered by no volume has the area it started with.
C26_LastCoveringVolumeWins ==
    \A i \in DOMAIN chf.areas :
        /\ (is_walkable(unmarked.areas[i]) /\ Covering(i) # {}) =>
               chf.areas[i] =
                   IF Removing(i) # {}
                   THEN area_volumes[First(Removing(i))].area
                   ELSE area_volumes[Last(Covering(i))].area
        /\ ~is_walkable(prev.areas[i]) => ~is_walkable(chf.areas[i])
        /\ Covering(i) = {} => chf.areas[i] = unmarked.areas[i]

\* Two volumes with different walkable areas covered a walkable span, which
\* has the area of the second; another span was not walkable and was covered.
C26_Witness ==
    /\ nmarks = 2
    /\ \E i \in DOMAIN chf.areas :
           /\ is_walkable(unmarked.areas[i])
           /\ Covering(i) = {1, 2}
           /\ Removing(i) = {}
           /\ area_volumes[1].area # area_volumes[2].area
           /\ chf.areas[i] = area_volumes[2].area
    /\ \E i \in DOMAIN chf.areas :
           ~is_walkable(unmarked.areas[i]) /\ Covering(i) # {}

\* A covering volume removed a span, and a later covering volume with a
\* walkable area left it removed.
C26_RemovedStaysRemoved ==
    /\ nmarks = 2
    /\ \E i \in DOMAIN chf.areas :
           /\ is_walkable(unmarked.areas[i])
           /\ Covering(i) = {1, 2}
           /\ Removing(i) = {1}
           /\ chf.areas[i] = NULL_AREA

====
